---- MODULE Spec2Model ----
(***************************************************************************)
(* Record normalisation pipeline of the farm-shop ETL:                     *)
(*   main.py            etl, transform_record,                             *)
(*                      format_opening_hours_to_string,                    *)
(*                      generate_products_from_name, generate_description  *)
(*   etl_farmshops.py   process_files, parse_json_file, parse_csv_file,    *)
(*                      transform_record                                   *)
(*                                                                         *)
(* Conventions of the model                                                *)
(*   - A text is a sequence of pieces; a piece is a string, normally one   *)
(*     character.  The Python string is the concatenation of the pieces.   *)
(*     Characters outside ASCII are written as two-letter pieces:          *)
(*     ":a" ":o" ":u" for a-, o-, u-umlaut; " {en} " is " <en dash> ".      *)
(*   - A JSON value that may be missing is a record with a tag t;          *)
(*     t = "absent" means the key is not in the mapping.                   *)
(*   - A Python float is modelled by the integer it equals.                *)
(***************************************************************************)
EXTENDS Integers, Sequences, FiniteSets, TLC

VARIABLES
    prog,                 \* "etl" (main.py) | "process_files" (etl_farmshops.py) | "call"
    pc,                   \* position of the run
    files,                \* number of source files of the run
    fi,                   \* 1-based index of the source file being processed
    fmt,                  \* "json" | "csv": the list of files being walked
    cur,                  \* shape of the file being processed: "none" between files
    pos,                  \* number of elements of the current file consumed
    last_read,            \* what the last file opened turned out to be
    length,               \* number of elements the last file opened holds
    failed,               \* processing of the last file opened raised
    unparsed,             \* number of files so far that could not be read or parsed
    examined,             \* first place at which the dedup test met each name
    dropped,              \* the reasons for which elements were left out so far
    unique_records,       \* list unique_records of the current file
    raw_records,          \* list raw_records, each record with the place it came from
    seen_names,           \* set seen_names
    ti,                   \* 1-based index of the raw record to transform next
    transformed_records,  \* list transformed_records
    arg,                  \* argument of a direct call of transform_record
    ret,                  \* its result
    schema_reference,     \* the reference record of the schema file, once loaded
    records_by_canton,    \* dict records_by_canton, in insertion order
    aargau_records,       \* list aargau_records
    wi,                   \* 1-based index of the canton group to write next
    written,              \* the output files written so far, each with its content
    valid                 \* what validate_schema returned: "none" before the call

vars == << prog, pc, files, fi, fmt, cur, pos, last_read, length, failed, unparsed,
           examined, dropped, unique_records, raw_records, seen_names, ti, transformed_records, arg, ret,
           schema_reference, records_by_canton, aargau_records, wi, written, valid >>

\* the variables of the stages after the transform loop
Out == << schema_reference, records_by_canton, aargau_records, wi, written, valid >>

\* their values before those stages
NoOutput ==
    /\ schema_reference = [loaded |-> "none", obj |-> << >>]
    /\ records_by_canton = << >>
    /\ aargau_records = << >>
    /\ wi = 1
    /\ written = << >>
    /\ valid = "none"

----------------------------------------------------------------------------
(* Bounds of the model *)

MaxFiles == 2
MaxItems == 2
\* keys of an opening-hours mapping, lines of a weekday_text list
MaxDays == 4
MaxLines == 3
\* records that reach the stages after the transform loop
MaxRecords == 3

----------------------------------------------------------------------------
(* Python string helpers *)

UpperToLower ==
    [c \in {"A","B","C","D","E","F","G","H","I","J","K","L","M",
            "N","O","P","Q","R","S","T","U","V","W","X","Y","Z",
            ":A",":O",":U"} |->
        CASE c = "A" -> "a" [] c = "B" -> "b" [] c = "C" -> "c" [] c = "D" -> "d"
          [] c = "E" -> "e" [] c = "F" -> "f" [] c = "G" -> "g" [] c = "H" -> "h"
          [] c = "I" -> "i" [] c = "J" -> "j" [] c = "K" -> "k" [] c = "L" -> "l"
          [] c = "M" -> "m" [] c = "N" -> "n" [] c = "O" -> "o" [] c = "P" -> "p"
          [] c = "Q" -> "q" [] c = "R" -> "r" [] c = "S" -> "s" [] c = "T" -> "t"
          [] c = "U" -> "u" [] c = "V" -> "v" [] c = "W" -> "w" [] c = "X" -> "x"
          [] c = "Y" -> "y" [] c = "Z" -> "z"
          [] c = ":A" -> ":a" [] c = ":O" -> ":o" [] c = ":U" -> ":u"]

\* str.lower()
lower(s) ==
    [i \in 1..Len(s) |-> IF s[i] \in DOMAIN UpperToLower THEN UpperToLower[s[i]] ELSE s[i]]

\* sub in s
Contains(sub, s) ==
    \E i \in 1..(Len(s) - Len(sub) + 1) :
        \A j \in 1..Len(sub) : s[i + j - 1] = sub[j]

\* s.replace(old, new) for a one-piece old; new is a text
RECURSIVE replace(_, _, _)
replace(s, old, new) ==
    IF s = << >> THEN << >>
    ELSE (IF Head(s) = old THEN new ELSE << Head(s) >>) \o replace(Tail(s), old, new)

\* the Python string a text stands for
RECURSIVE Cat(_)
Cat(s) == IF s = << >> THEN "" ELSE Head(s) \o Cat(Tail(s))

\* sep.join(parts) for a list of strings
RECURSIVE join(_, _)
join(sep, parts) ==
    IF parts = << >> THEN ""
    ELSE IF Len(parts) = 1 THEN parts[1]
    ELSE parts[1] \o sep \o join(sep, Tail(parts))

----------------------------------------------------------------------------
(* JSON values *)

Absent      == [t |-> "absent", v |-> 0]
Null        == [t |-> "null",   v |-> 0]
Num(n)      == [t |-> "num",    v |-> n]     \* a JSON number
NumStr(n)   == [t |-> "str",    v |-> n]     \* a string holding the decimal text of n
BadStr      == [t |-> "text",   v |-> 0]     \* a string that is no number
Huge        == [t |-> "huge",   v |-> 0]     \* an integer beyond the range of a float

NoText      == [t |-> "absent", s |-> << >>]
Txt(s)      == [t |-> "str",    s |-> s]
NullText    == [t |-> "null",   s |-> << >>]
ListText    == [t |-> "list",   s |-> << >>]  \* a non-empty list where a string is expected

\* b is the truth value of the flag
NoFlag      == [t |-> "absent", b |-> FALSE]
Flag(b)     == [t |-> "bool",   b |-> b]
FlagOne     == [t |-> "int",    b |-> TRUE]   \* the number 1 where a boolean is expected

NoList      == [t |-> "absent", l |-> << >>]
List(l)     == [t |-> "list",   l |-> l]
NullList    == [t |-> "null",   l |-> << >>]

\* geometry: g and loc tell whether "geometry" and "location" are missing,
\* a mapping, or something that has no .get
Geometry(g, loc, la, ln) == [g |-> g, loc |-> loc, lat |-> la, lng |-> ln]
NoGeometry  == Geometry("absent", "absent", Absent, Absent)

\* opening_hours: absent | a day -> hours mapping (list of entries in
\* insertion order) | a mapping with the key weekday_text | a string
NoHours       == [t |-> "absent", m |-> << >>, wt |-> << >>]
HoursMap(m)   == [t |-> "map",    m |-> m,     wt |-> << >>]
WeekdayText(w) == [t |-> "wt",    m |-> << >>, wt |-> w]
HoursString   == [t |-> "text",   m |-> << >>, wt |-> << >>]

\* one line of weekday_text: head, then ": " and tail when sep
Line(head, sep, tail) == [head |-> head, sep |-> sep, tail |-> tail]

\* record.get(key, default) on a tagged value
Get(v, default) == IF v.t = "absent" THEN default ELSE v

\* truth value of a text-valued field
Truthy(v) == (v.t = "str" /\ v.s # << >>) \/ v.t = "list"

----------------------------------------------------------------------------
(* Results of a call: a value, or the exception it raised *)

Return(v) == [ok |-> TRUE,  err |-> "none", val |-> v]
Raise(e)  == [ok |-> FALSE, err |-> e,      val |-> "none"]

\* float(v)
float(v) ==
    CASE v.t = "num"  -> Return(v.v)
      [] v.t = "str"  -> Return(v.v)
      [] v.t = "text" -> Raise("ValueError")
      [] v.t = "huge" -> Raise("OverflowError")
      [] OTHER        -> Raise("TypeError")

\* str(v) inside an f-string, for a text-valued field
Str(v) ==
    CASE v.t = "str"  -> v.s
      [] v.t = "null" -> << "None" >>
      [] OTHER        -> << "[...]" >>

----------------------------------------------------------------------------
(* format_opening_hours_to_string, main.py *)

\* the default text with the Saturday part lost
FallbackWithoutSaturday == "Mon-Fri: 9:00-18:00"

Fallback == "Mon-Fri: 9:00-18:00, Sat: 9:00-16:00"

\* day_order.get(d, 7)
day_order(d) ==
    CASE d = "Mon" -> 0 [] d = "Tue" -> 1 [] d = "Wed" -> 2 [] d = "Thu" -> 3
      [] d = "Fri" -> 4 [] d = "Sat" -> 5 [] d = "Sun" -> 6 [] OTHER -> 7

\* hours_to_days: the days of each hours string, groups in order of first appearance
RECURSIVE hours_to_days(_, _)
hours_to_days(entries, acc) ==
    IF entries = << >> THEN acc
    ELSE LET e   == Head(entries)
             key == Cat(e.hours.s)
             at  == { i \in 1..Len(acc) : acc[i].key = key }
         IN  IF at = {}
             THEN hours_to_days(Tail(entries),
                      Append(acc, [key |-> key, hours |-> e.hours.s, days |-> << e.day >>]))
             ELSE hours_to_days(Tail(entries),
                      [acc EXCEPT ![CHOOSE i \in at : TRUE].days = Append(@, e.day)])

\* days.sort(key=lambda d: day_order.get(d, 7)): a stable sort
RECURSIVE InsertDay(_, _)
InsertDay(sorted, d) ==
    IF sorted = << >> THEN << d >>
    ELSE IF day_order(Head(sorted)) <= day_order(d)
         THEN << Head(sorted) >> \o InsertDay(Tail(sorted), d)
         ELSE << d >> \o sorted

\* the days left in insertion order
unsorted_days(days) == days

RECURSIVE sort_days(_)
sort_days(days) ==
    IF days = << >> THEN << >>
    ELSE InsertDay(sort_days(SubSeq(days, 1, Len(days) - 1)), days[Len(days)])

\* day_ranges after the loop has handled days[1..i]
RECURSIVE day_ranges(_, _)
day_ranges(days, i) ==
    IF i = 1 THEN << << days[1] >> >>
    ELSE LET prev == day_ranges(days, i - 1)
         IN  IF day_order(days[i]) = day_order(days[i - 1]) + 1
             THEN [prev EXCEPT ![Len(prev)] = Append(@, days[i])]
             ELSE Append(prev, << days[i] >>)

formatted_days(ranges) ==
    [k \in 1..Len(ranges) |->
        IF Len(ranges[k]) = 1 THEN ranges[k][1]
        ELSE ranges[k][1] \o "-" \o ranges[k][Len(ranges[k])]]

\* hours.replace(" <en dash> ", "-").replace(" - ", "-")
clean_hours(hours) == Cat(replace(replace(hours, " {en} ", << "-" >>), " - ", << "-" >>))

formatted_parts(groups) ==
    [k \in 1..Len(groups) |->
        LET days == sort_days(groups[k].days)
        IN  join(", ", formatted_days(day_ranges(days, Len(days))))
              \o ": " \o clean_hours(groups[k].hours)]

\* opening_hours_dict: list of [day, hours], hours a tagged text
format_opening_hours_to_string(opening_hours_dict) ==
    IF opening_hours_dict = << >> THEN Return(Fallback)
    ELSE IF \E i \in 1..Len(opening_hours_dict) : opening_hours_dict[i].hours.t = "list"
         THEN Raise("TypeError")          \* unhashable key of hours_to_days
    ELSE IF \E i \in 1..Len(opening_hours_dict) : opening_hours_dict[i].hours.t # "str"
         THEN Raise("AttributeError")     \* hours.replace on a non-string
    ELSE Return(join(", ", formatted_parts(hours_to_days(opening_hours_dict, << >>))))

----------------------------------------------------------------------------
(* generate_products_from_name, generate_description, main.py *)

\* product_categories, in declaration order
product_categories == <<
    [product |-> "vegetables", keywords |-> { <<"g","e","m",":u","s","e">>, <<"v","e","g">>,
                                              <<"v","e","g","e","t">>, <<"g","e","m","u","e","s","e">> }],
    [product |-> "fruits",     keywords |-> { <<"f","r",":u","c","h","t","e">>, <<"f","r","u","i","t">>,
                                              <<"o","b","s","t">>, <<"b","e","e","r","e","n">>,
                                              <<"b","e","r","r","y">>, <<":a","p","f","e","l">>,
                                              <<"a","p","p","l","e">> }],
    [product |-> "dairy",      keywords |-> { <<"m","i","l","c","h">>, <<"m","i","l","k">>,
                                              <<"k",":a","s","e">>, <<"c","h","e","e","s","e">>,
                                              <<"d","a","i","r","y">>, <<"j","o","g","h","u","r","t">>,
                                              <<"y","o","g","u","r","t">> }],
    [product |-> "meat",       keywords |-> { <<"f","l","e","i","s","c","h">>, <<"m","e","a","t">>,
                                              <<"m","e","t","z","g">>, <<"w","u","r","s","t">>,
                                              <<"s","a","u","s","a","g","e">>,
                                              <<"m","e","a","t","e","r","y">> }],
    [product |-> "eggs",       keywords |-> { <<"e","i","e","r">>, <<"e","g","g">> }],
    [product |-> "honey",      keywords |-> { <<"h","o","n","i","g">>, <<"h","o","n","e","y">>,
                                              <<"i","m","k","e","r">> }],
    [product |-> "herbs",      keywords |-> { <<"k","r",":a","u","t","e","r">>, <<"h","e","r","b">>,
                                              <<"s","p","i","c","e">> }],
    [product |-> "wines",      keywords |-> { <<"w","e","i","n">>, <<"w","i","n","e">>,
                                              <<"r","e","b","e","n">>, <<"r","e","b","b","e","r","g">>,
                                              <<"v","i","n","e","y","a","r","d">> }],
    [product |-> "flowers",    keywords |-> { <<"b","l","u","m","e","n">>, <<"f","l","o","w","e","r">>,
                                              <<"g",":a","r","t","n","e","r","e","i">>,
                                              <<"g","a","r","d","e","n">> }],
    [product |-> "bakery",     keywords |-> { <<"b","r","o","t">>, <<"b","r","e","a","d">>,
                                              <<"b",":a","c","k","e","r","e","i">>,
                                              <<"b","a","k","e","r","y">>, <<"g","e","b",":a","c","k">> }] >>

RECURSIVE likely_products(_, _)
likely_products(name_lower, k) ==
    IF k > Len(product_categories) THEN << >>
    ELSE (IF \E kw \in product_categories[k].keywords : Contains(kw, name_lower)
          THEN << product_categories[k].product >> ELSE << >>)
         \o likely_products(name_lower, k + 1)

\* name: a text
generate_products_from_name(name) ==
    LET found == likely_products(lower(name), 1)
    IN  IF found = << >> THEN << "vegetables", "fruits", "dairy" >> ELSE found

\* name, canton: tagged texts; organic: BOOLEAN; products: list of strings
generate_description(name, canton, organic, products) ==
    Str(name) \o << " is a farm shop located in " >> \o Str(canton) \o << ", Switzerland" >>
      \o (IF organic THEN << ", offering certified organic products" >>
                     ELSE << ", offering fresh local products" >>)
      \o (IF products # << >>
          THEN << ". They specialize in ",
                  IF Len(products) > 1
                  THEN join(", ", SubSeq(products, 1, Len(products) - 1))
                         \o " and " \o products[Len(products)]
                  ELSE products[1] >>
          ELSE << >>)
      \o << "." >>

\* the image file name derived from the name
RECURSIVE strip_chars(_)
strip_chars(s) ==
    IF s = << >> THEN << >>
    ELSE (IF Head(s) \in {",", ".", ";", ":", "!", "?", "(", ")", "[", "]", "{", "}",
                          "'", "\"", "/", "\\"}
          THEN << >> ELSE << Head(s) >>) \o strip_chars(Tail(s))

slug(name) == strip_chars(replace(replace(lower(name), " ", << "_" >>), "-", << "_" >>))

----------------------------------------------------------------------------
(* extract_long_name, main.py and etl_farmshops.py *)

RECURSIVE extract_long_name(_, _)
extract_long_name(address_components, level) ==
    IF address_components = << >> THEN Txt(<< >>)
    ELSE IF \E i \in 1..Len(Head(address_components).types) :
                Head(address_components).types[i] = level
         THEN Get(Head(address_components).long_name, Txt(<< >>))
         ELSE extract_long_name(Tail(address_components), level)

----------------------------------------------------------------------------
(* DataCleaner._infer_organic_status, cleaner.py *)

organic_keywords ==
    { << "b", "i", "o" >>, << "o", "r", "g", "a", "n", "i", "c" >>, << ":o", "k", "o" >>,
      << "n", "a", "t", "u", "r", "k", "o", "s", "t" >>,
      << "d", "e", "m", "e", "t", "e", "r" >>, << "k", "n", "o", "s", "p", "e" >> }

infer_organic_status(place) ==
    LET name == Get(place.name, Txt(<< >>))
    IN  IF name.t # "str" THEN Raise("AttributeError")          \* .lower()
        ELSE Return(\E keyword \in organic_keywords : Contains(keyword, lower(name.s)))

----------------------------------------------------------------------------
(* transform_record, main.py *)

Aargau == << "A", "a", "r", "g", "a", "u" >>

\* the weekday name kept as the key
days_map_unmapped(day_full) == day_full

\* days_map.get(day_full, day_full)
days_map(day_full) ==
    CASE day_full = "Monday"    -> "Mon" [] day_full = "Tuesday"  -> "Tue"
      [] day_full = "Wednesday" -> "Wed" [] day_full = "Thursday" -> "Thu"
      [] day_full = "Friday"    -> "Fri" [] day_full = "Saturday" -> "Sat"
      [] day_full = "Sunday"    -> "Sun" [] OTHER -> day_full

\* d[day] = hours on an insertion-ordered dict
DictSet(d, day, hours) ==
    IF \E i \in 1..Len(d) : d[i].day = day
    THEN [i \in 1..Len(d) |-> IF d[i].day = day THEN [day |-> day, hours |-> hours] ELSE d[i]]
    ELSE Append(d, [day |-> day, hours |-> hours])

\* the loop over weekday_text: split(": ", 1), entries without the separator skipped
RECURSIVE parse_weekday_text(_, _)
parse_weekday_text(opening_hours, d) ==
    IF opening_hours = << >> THEN d
    ELSE LET entry == Head(opening_hours)
         IN  parse_weekday_text(Tail(opening_hours),
                 IF entry.sep THEN DictSet(d, days_map(entry.head), Txt(entry.tail)) ELSE d)

\* the value of record["opening_hours"] when it is a dict, as a list of [day, hours]
HoursEntries(oh) ==
    IF oh.t = "map" THEN oh.m
    ELSE << [day |-> "weekday_text", hours |-> ListText] >>

\* each coordinate defaulted on its own
NormalizedCoordsEachAlone(latv, lngv) ==
    LET la == float(latv)
        ln == float(lngv)
    IN  IF la.err = "OverflowError" THEN Raise(la.err)
        ELSE IF la.ok /\ ln.err = "OverflowError" THEN Raise(ln.err)
        ELSE Return([lat |-> IF la.ok THEN la.val ELSE 0,
                     lng |-> IF ln.ok THEN ln.val ELSE 0])

\* lines 399-405: both coordinates inside one try
NormalizedCoords(latv, lngv) ==
    LET la == float(latv)
        ln == float(lngv)
    IN  IF ~la.ok
        THEN (IF la.err \in {"ValueError", "TypeError"}
              THEN Return([lat |-> 0, lng |-> 0]) ELSE Raise(la.err))
        ELSE IF ~ln.ok
        THEN (IF ln.err \in {"ValueError", "TypeError"}
              THEN Return([lat |-> 0, lng |-> 0]) ELSE Raise(ln.err))
        ELSE Return([lat |-> la.val, lng |-> ln.val])

\* lines 425-426: record.get("geometry", {}).get("location", {}).get(k, 0), twice
ProviderCoords(geometry) ==
    IF geometry.g = "notmap" \/ (geometry.g = "map" /\ geometry.loc = "notmap")
    THEN Raise("AttributeError")
    ELSE LET inner == geometry.g = "map" /\ geometry.loc = "map"
             la == float(IF inner THEN Get(geometry.lat, Num(0)) ELSE Num(0))
             ln == float(IF inner THEN Get(geometry.lng, Num(0)) ELSE Num(0))
         IN  IF ~la.ok THEN Raise(la.err)
             ELSE IF ~ln.ok THEN Raise(ln.err)
             ELSE Return([lat |-> la.val, lng |-> ln.val])

\* lines 397-421: the branch for already cleaned data
NormalizedFields(record) ==
    LET c == NormalizedCoords(Get(record.latitude, Get(record.lat, Num(0))),
                              Get(record.longitude, Get(record.lng, Num(0))))
    IN  IF ~c.ok THEN c
        ELSE Return([lat     |-> c.val.lat,
                     lng     |-> c.val.lng,
                     address |-> Get(record.address, Txt(<< >>)),
                     canton  |-> Get(record.canton, Txt(Aargau)),
                     phone   |-> Get(record.phone, Txt(<< >>)),
                     email   |-> Get(record.email, Txt(<< >>)),
                     organic |-> Get(record.organic_certified,
                                     Get(record.organic, Flag(FALSE))),
                     opening_hours_dict |->
                         IF record.opening_hours.t \in {"map", "wt"}
                         THEN HoursEntries(record.opening_hours) ELSE << >>])

\* lines 423-464: the branch for raw Google Places data
ProviderFields(record, name) ==
    LET c  == ProviderCoords(record.geometry)
        ac == Get(record.address_components, List(<< >>))
        found == extract_long_name(ac.l, "administrative_area_level_1")
        certified == Get(record.organic_certified, Flag(FALSE))
        oc == certified.b
    IN  IF ~c.ok THEN c
        ELSE IF ac.t # "list" THEN Raise("TypeError")
        ELSE IF ~oc /\ name.t # "str" THEN Raise("AttributeError")     \* name.lower()
        ELSE IF record.opening_hours.t = "text" THEN Raise("AttributeError")
        ELSE Return([lat     |-> c.val.lat,
                     lng     |-> c.val.lng,
                     address |-> Get(record.formatted_address, Txt(<< >>)),
                     canton  |-> IF Truthy(found) THEN found ELSE Txt(Aargau),
                     phone   |-> Get(record.formatted_phone_number, Txt(<< >>)),
                     email   |-> Txt(<< >>),
                     organic |-> IF oc THEN certified       \* x or ... is x when x is true
                                 ELSE Flag(\/ Contains(<< "b", "i", "o" >>, lower(name.s))
                                           \/ Contains(<< "o", "r", "g", "a", "n", "i", "c" >>,
                                                       lower(name.s))),
                     opening_hours_dict |->
                         IF record.opening_hours.t = "wt"
                         THEN parse_weekday_text(record.opening_hours.wt, << >>)
                         ELSE << >>])

\* lines 471-513, given the fields f of either branch
BuildRecord(record, record_id, name, f) ==
    LET given    == Get(record.products, List(<< >>))
        generate == given.l = << >>                      \* not products
        products == IF generate THEN generate_products_from_name(name.s) ELSE given.l
        hours    == format_opening_hours_to_string(f.opening_hours_dict)
        desc     == Get(record.description, Txt(<< >>))
        image    == Get(record.image, Txt(<< >>))
    IN  IF generate /\ name.t # "str" THEN Raise("AttributeError")  \* name.lower()
        ELSE IF ~hours.ok THEN hours
        ELSE IF ~Truthy(image) /\ name.t # "str" THEN Raise("AttributeError")
        ELSE Return([id            |-> record_id,
                     name          |-> name,
                     description   |-> IF Truthy(desc) THEN desc
                                       ELSE Txt(generate_description(name, f.canton,
                                                                     f.organic.b, products)),
                     address       |-> f.address,
                     canton        |-> f.canton,
                     phone         |-> f.phone,
                     email         |-> f.email,
                     website       |-> Get(record.website, Txt(<< >>)),
                     opening_hours |-> IF hours.val # "" THEN hours.val ELSE Fallback,
                     products      |-> products,
                     organic       |-> f.organic,
                     lat           |-> f.lat,
                     lng           |-> f.lng,
                     image         |-> IF Truthy(image) THEN image
                                       ELSE Txt(slug(name.s) \o << ".jpg" >>)])

transform_record(record, record_id) ==
    IF record.kind = "str" THEN Raise("ValueError")
    ELSE LET name == Get(record.name, Txt(<< >>))
             f == IF record.latitude.t # "absent" \/ record.lat.t # "absent"
                  THEN NormalizedFields(record)
                  ELSE ProviderFields(record, name)
         IN  IF ~f.ok THEN f ELSE BuildRecord(record, record_id, name, f.val)

----------------------------------------------------------------------------
(* transform_record, etl_farmshops.py *)

MapsUrl == << "https://maps.google.com/?cid=" >>

\* lines 114-117
google_maps_url(record) ==
    LET place_id == Get(record.place_id, Txt(<< "unknown" >>))
        url      == Get(record.url, Txt(<< >>))
        given    == IF Truthy(url) THEN url ELSE Get(record.google_maps_url, Txt(<< >>))
    IN  IF ~Truthy(given) /\ Truthy(place_id) /\ Cat(Str(place_id)) # "unknown"
        THEN Txt(MapsUrl \o Str(place_id))
        ELSE given

\* lines 65-112
FarmshopsFields(record) ==
    IF record.latitude.t # "absent" /\ record.longitude.t # "absent"
    THEN LET c == NormalizedCoords(record.latitude, record.longitude)
         IN  IF ~c.ok THEN c
             ELSE Return([lat |-> c.val.lat, lng |-> c.val.lng,
                          address |-> Get(record.address, Txt(<< >>)),
                          opening_hours_dict |->
                              IF record.opening_hours.t \in {"map", "wt"}
                              THEN HoursEntries(record.opening_hours) ELSE << >>])
    ELSE LET c == ProviderCoords(record.geometry)
         IN  IF ~c.ok THEN c
             ELSE IF record.opening_hours.t = "text" THEN Raise("AttributeError")
             ELSE Return([lat |-> c.val.lat, lng |-> c.val.lng,
                          address |-> Get(record.formatted_address, Txt(<< >>)),
                          opening_hours_dict |->
                              IF record.opening_hours.t = "wt"
                              THEN parse_weekday_text(record.opening_hours.wt, << >>)
                              ELSE << >>])

farmshops_transform_record(record) ==
    IF record.kind = "str" THEN Raise("ValueError")
    ELSE LET f == FarmshopsFields(record)
         IN  IF ~f.ok THEN f
             ELSE Return([name              |-> Get(record.name, Txt(<< >>)),
                          address           |-> f.val.address,
                          latitude          |-> f.val.lat,
                          longitude         |-> f.val.lng,
                          products          |-> Get(record.products, List(<< >>)),
                          organic_certified |-> Get(record.organic_certified, Flag(FALSE)),
                          payment_methods   |-> Get(record.payment_methods, List(<< >>)),
                          opening_hours     |-> f.val.opening_hours_dict,
                          website           |-> Get(record.website, Txt(<< >>)),
                          google_maps_url   |-> google_maps_url(record)])

----------------------------------------------------------------------------
(* Raw records *)

\* a mapping with no key at all
BlankRecord ==
    [kind |-> "dict", name |-> NoText, place_id |-> NoText,
     latitude |-> Absent, lat |-> Absent, longitude |-> Absent, lng |-> Absent,
     geometry |-> NoGeometry,
     formatted_address |-> NoText, address |-> NoText,
     address_components |-> NoList, canton |-> NoText,
     formatted_phone_number |-> NoText, phone |-> NoText, email |-> NoText,
     website |-> NoText, url |-> NoText, google_maps_url |-> NoText,
     organic_certified |-> NoFlag, organic |-> NoFlag,
     opening_hours |-> NoHours, products |-> NoList, payment_methods |-> NoList,
     description |-> NoText, image |-> NoText]

\* a list element that is a bare string
BareString == [BlankRecord EXCEPT !.kind = "str"]

NameA == << "B", "i", "o" >>
NameB == << "H", "o", "f" >>
NameC == << "D", "e", "m", "e", "t", "e", "r", " ", "H", "o", "f" >>

\* cleaned shape, transforms
GoodA == [BlankRecord EXCEPT !.name = Txt(NameA), !.latitude = Num(47), !.longitude = Num(8)]
\* provider shape whose latitude is text that is no number
BadA  == [BlankRecord EXCEPT !.name = Txt(NameA),
                             !.geometry = Geometry("map", "map", BadStr, Num(8))]
\* provider shape, transforms
GoodB == [BlankRecord EXCEPT !.name = Txt(NameB),
                             !.geometry = Geometry("map", "map", Num(46), Num(7))]
BadB  == [BlankRecord EXCEPT !.name = Txt(NameB), !.geometry = Geometry("notmap", "absent", Absent, Absent)]
NoNameRecord    == [BlankRecord EXCEPT !.latitude = Num(47), !.longitude = Num(8)]
EmptyNameRecord == [NoNameRecord EXCEPT !.name = Txt(<< >>)]
ListNameRecord  == [NoNameRecord EXCEPT !.name = ListText]

\* the mappings a JSON source may hold, and the elements of a JSON list
DictItems == { GoodA, BadA, GoodB, BadB, NoNameRecord, EmptyNameRecord, ListNameRecord }
JsonItems == DictItems \cup { BareString }

\* the rows csv.DictReader yields: every value a string
CsvA == [BlankRecord EXCEPT !.name = Txt(NameA), !.latitude = NumStr(47), !.longitude = NumStr(8)]
CsvB == [BlankRecord EXCEPT !.name = Txt(NameB), !.latitude = BadStr, !.longitude = NumStr(8)]
CsvItems == { CsvA, CsvB, [CsvA EXCEPT !.name = Txt(<< >>)], [CsvA EXCEPT !.name = NoText] }

----------------------------------------------------------------------------
(* Ingestion and dedup: etl (main.py 173-225), process_files (etl_farmshops.py 206-267) *)

Entry(r, src, p) == [src |-> src, pos |-> p, rec |-> r]

\* the dedup test without "name not in seen_names"
DedupIgnoringSeen(r, seen) ==
    LET name == Get(r.name, Txt(<< >>))
    IN  IF ~Truthy(name) THEN "skip"
        ELSE IF name.t = "list" THEN "raise"
        ELSE "add"

\* the dedup test without "if name"
DedupWithoutNameTest(r, seen) ==
    LET name == Get(r.name, Txt(<< >>))
    IN  IF name.t = "list" THEN "raise"
        ELSE IF name.s \in seen THEN "skip"
        ELSE "add"

\* name = record.get('name', ''); if name and name not in seen_names
Dedup(r, seen) ==
    LET name == Get(r.name, Txt(<< >>))
    IN  IF ~Truthy(name) THEN "skip"
        ELSE IF name.t = "list" THEN "raise"       \* TypeError: unhashable
        ELSE IF name.s \in seen THEN "skip"
        ELSE "add"

\* what one pass of the loop body does with element r
Step(r, seen) == IF r.kind # "dict" THEN "skip" ELSE Dedup(r, seen)

\* the first place at which the dedup test meets a name
Noted(ex, r, src, p) ==
    LET name == Get(r.name, Txt(<< >>))
    IN  IF r.kind = "dict" /\ name.t = "str" /\ name.s # << >>
           /\ ~\E e \in ex : e.name = name.s
        THEN ex \cup { [name |-> name.s, src |-> src, pos |-> p] }
        ELSE ex

\* why an element was left out, when it was
Dropped(dr, r, seen) ==
    LET name == Get(r.name, Txt(<< >>))
    IN  IF r.kind # "dict" THEN dr \cup { "not_a_mapping" }
        ELSE IF r.name.t = "absent" THEN dr \cup { "no_name" }
        ELSE IF ~Truthy(name) THEN dr \cup { "empty_name" }
        ELSE IF name.t = "str" /\ name.s \in seen THEN dr \cup { "duplicate" }
        ELSE dr

Unparsable == { "unreadable", "malformed" }

NextFile ==
    /\ fi' = fi + 1
    /\ cur' = "none"
    /\ unique_records' = << >>

\* the file turns out to be of kind k holding n elements
Opened(k, n) ==
    /\ last_read' = k
    /\ length' = n
    /\ pos' = 0
    /\ failed' = FALSE
    /\ unparsed' = IF k \in Unparsable THEN unparsed + 1 ELSE unparsed

\* etl: the file is opened and json.load decides what it holds
EtlOpenFile ==
    /\ prog = "etl" /\ pc = "ingest" /\ cur = "none" /\ fi <= files
    /\ \E k \in { "missing", "unreadable", "malformed", "scalar", "list", "wrapper", "dict" } :
       \E n \in (IF k \in { "list", "wrapper" } THEN 0..MaxItems
                 ELSE IF k = "dict" THEN { 1 } ELSE { 0 }) :
          /\ Opened(k, n)
          /\ IF k \in { "list", "wrapper", "dict" }
             THEN cur' = k /\ unique_records' = << >> /\ fi' = fi
             ELSE NextFile         \* continue (178), except (218), neither list nor dict
    /\ UNCHANGED << Out, prog, pc, files, fmt, examined, dropped, raw_records, seen_names, ti,
                    transformed_records, arg, ret >>

\* etl: one iteration of the loop over a list (189-196) or over file_records["farmshops"] (204-211)
EtlIngestItem ==
    /\ prog = "etl" /\ pc = "ingest" /\ cur \in { "list", "wrapper" } /\ pos < length
    /\ \E r \in JsonItems :
          LET does == Step(r, seen_names)
          IN  IF does = "raise"
              THEN /\ NextFile                                  \* except, line 218
                   /\ failed' = TRUE
                   /\ UNCHANGED << pos, examined, dropped, seen_names, raw_records >>
              ELSE /\ pos' = pos + 1
                   /\ examined' = Noted(examined, r, fi, pos + 1)
                   /\ dropped' = Dropped(dropped, r, seen_names)
                   /\ seen_names' = IF does = "add" THEN seen_names \cup { r.name.s }
                                    ELSE seen_names
                   /\ unique_records' = IF does = "add" /\ cur = "list"
                                        THEN Append(unique_records, Entry(r, fi, pos + 1))
                                        ELSE unique_records
                   /\ raw_records' = IF does = "add" /\ cur = "wrapper"
                                     THEN Append(raw_records, Entry(r, fi, pos + 1))
                                     ELSE raw_records
                   /\ UNCHANGED << fi, cur, failed >>
    /\ UNCHANGED << Out, prog, pc, files, fmt, last_read, length, unparsed, ti,
                    transformed_records, arg, ret >>

\* etl: the loop over the elements ends; raw_records.extend(unique_records), line 199
EtlEndOfItems ==
    /\ prog = "etl" /\ pc = "ingest" /\ cur \in { "list", "wrapper" } /\ pos = length
    /\ raw_records' = raw_records \o unique_records
    /\ NextFile
    /\ UNCHANGED << Out, prog, pc, files, fmt, pos, last_read, length, failed, unparsed, examined,
                    dropped, seen_names, ti, transformed_records, arg, ret >>

\* etl: the file holds one mapping that is no wrapper, lines 212-217
EtlSingleRecord ==
    /\ prog = "etl" /\ pc = "ingest" /\ cur = "dict"
    /\ \E r \in DictItems :
          LET does == Dedup(r, seen_names)
          IN  /\ failed' = (does = "raise")                     \* except, line 218
              /\ pos' = IF does = "raise" THEN pos ELSE pos + 1
              /\ examined' = IF does = "raise" THEN examined ELSE Noted(examined, r, fi, 1)
              /\ dropped' = IF does = "raise" THEN dropped ELSE Dropped(dropped, r, seen_names)
              /\ seen_names' = IF does = "add" THEN seen_names \cup { r.name.s } ELSE seen_names
              /\ raw_records' = IF does = "add" THEN Append(raw_records, Entry(r, fi, 1))
                                ELSE raw_records
    /\ NextFile
    /\ UNCHANGED << Out, prog, pc, files, fmt, last_read, length, unparsed, ti,
                    transformed_records, arg, ret >>

\* process_files: parse_json_file (29-36) or parse_csv_file (38-53) reads the file;
\* the CSV files are walked after the JSON files
BatchOpenFile ==
    /\ prog = "process_files" /\ pc = "ingest" /\ cur = "none" /\ fi <= files
    /\ \E f \in (IF fmt = "json" THEN { "json", "csv" } ELSE { "csv" }) :
       \E k \in (IF f = "json"
                 THEN { "unreadable", "malformed", "scalar", "list", "wrapper", "dict" }
                 ELSE { "unreadable", "list" }) :
       \E n \in (IF k \in { "list", "wrapper" } THEN 0..MaxItems
                 ELSE IF k = "dict" THEN { 1 } ELSE { 0 }) :
          /\ fmt' = f
          /\ Opened(k, n)
          /\ IF f = "json" /\ k = "unreadable"
             THEN \* only json.JSONDecodeError is caught: the error leaves process_files
                  pc' = "crashed" /\ UNCHANGED << fi, cur, unique_records >>
             ELSE /\ pc' = pc
                  /\ IF k \in { "list", "dict" }
                     THEN cur' = k /\ unique_records' = << >> /\ fi' = fi
                     ELSE \* [] from a failed parse, a scalar, or a wrapper: a mapping
                          \* without the key name, lines 230-237
                          NextFile
    /\ UNCHANGED << Out, prog, files, examined, dropped, raw_records, seen_names, ti,
                    transformed_records, arg, ret >>

\* process_files: one iteration of the loops of lines 216-226 / 247-257
BatchIngestItem ==
    /\ prog = "process_files" /\ pc = "ingest" /\ cur = "list" /\ pos < length
    /\ \E r \in (IF fmt = "json" THEN JsonItems ELSE CsvItems) :
          LET does == Step(r, seen_names)
          IN  IF does = "raise"
              THEN /\ pc' = "crashed"                           \* no handler
                   /\ failed' = TRUE
                   /\ UNCHANGED << pos, examined, dropped, seen_names, unique_records >>
              ELSE /\ pos' = pos + 1
                   /\ examined' = Noted(examined, r, fi, pos + 1)
                   /\ dropped' = Dropped(dropped, r, seen_names)
                   /\ seen_names' = IF does = "add" THEN seen_names \cup { r.name.s }
                                    ELSE seen_names
                   /\ unique_records' = IF does = "add"
                                        THEN Append(unique_records, Entry(r, fi, pos + 1))
                                        ELSE unique_records
                   /\ UNCHANGED << pc, failed >>
    /\ UNCHANGED << Out, prog, files, fi, fmt, cur, last_read, length, unparsed, raw_records, ti,
                    transformed_records, arg, ret >>

\* process_files: raw_records.extend(unique_records), lines 229 / 260
BatchEndOfItems ==
    /\ prog = "process_files" /\ pc = "ingest" /\ cur = "list" /\ pos = length
    /\ raw_records' = raw_records \o unique_records
    /\ NextFile
    /\ UNCHANGED << Out, prog, pc, files, fmt, pos, last_read, length, failed, unparsed, examined,
                    dropped, seen_names, ti, transformed_records, arg, ret >>

\* process_files: the file holds one mapping, lines 230-237
BatchSingleRecord ==
    /\ prog = "process_files" /\ pc = "ingest" /\ cur = "dict"
    /\ \E r \in DictItems :
          LET does == Dedup(r, seen_names)
          IN  IF does = "raise"
              THEN /\ pc' = "crashed"                           \* no handler
                   /\ failed' = TRUE
                   /\ UNCHANGED << fi, cur, pos, unique_records, examined, dropped,
                                   seen_names, raw_records >>
              ELSE /\ NextFile
                   /\ pos' = pos + 1
                   /\ examined' = Noted(examined, r, fi, 1)
                   /\ dropped' = Dropped(dropped, r, seen_names)
                   /\ seen_names' = IF does = "add" THEN seen_names \cup { r.name.s }
                                    ELSE seen_names
                   /\ raw_records' = IF does = "add" THEN Append(raw_records, Entry(r, fi, 1))
                                     ELSE raw_records
                   /\ UNCHANGED << pc, failed >>
    /\ UNCHANGED << Out, prog, files, fmt, last_read, length, unparsed, ti,
                    transformed_records, arg, ret >>

\* if not raw_records: sys.exit(1) / return False  (main.py 223-225, etl_farmshops.py 265-267)
CheckRaw ==
    /\ pc = "ingest" /\ cur = "none" /\ fi > files
    /\ IF raw_records = << >>
       THEN pc' = "exit_no_records" /\ ti' = ti
       ELSE pc' = "transform" /\ ti' = 1
    /\ UNCHANGED << Out, prog, files, fi, fmt, cur, pos, last_read, length, failed, unparsed,
                    examined, dropped, unique_records, raw_records, seen_names,
                    transformed_records, arg, ret >>

----------------------------------------------------------------------------
(* The transform loop: main.py 227-240, etl_farmshops.py 269-284 *)

\* the call the loop makes for the raw record at index i
TransformCall(i) ==
    IF prog = "etl" THEN transform_record(raw_records[i].rec, i)
    ELSE farmshops_transform_record(raw_records[i].rec)

\* the loop without its try/except: the first failure ends the run
TransformStopsAtFailure ==
    /\ pc = "transform" /\ ti <= Len(raw_records)
    /\ LET res == TransformCall(ti)
       IN  /\ transformed_records' = IF res.ok THEN Append(transformed_records, res.val)
                                     ELSE transformed_records
           /\ pc' = IF res.ok THEN pc ELSE "exit_no_transformed"
    /\ ti' = ti + 1
    /\ UNCHANGED << Out, prog, files, fi, fmt, cur, pos, last_read, length, failed, unparsed,
                    examined, dropped, unique_records, raw_records, seen_names, arg, ret >>

Transform ==
    /\ pc = "transform" /\ ti <= Len(raw_records)
    /\ LET res == TransformCall(ti)
       IN  transformed_records' = IF res.ok THEN Append(transformed_records, res.val)
                                  ELSE transformed_records      \* except: logged, skipped
    /\ ti' = ti + 1
    /\ UNCHANGED << Out, prog, pc, files, fi, fmt, cur, pos, last_read, length, failed, unparsed,
                    examined, dropped, unique_records, raw_records, seen_names, arg, ret >>

\* if not transformed_records: sys.exit(1) / return False; otherwise the next stage
CheckTransformed ==
    /\ pc = "transform" /\ ti > Len(raw_records)
    /\ pc' = IF transformed_records = << >> THEN "exit_no_transformed"
             ELSE IF prog = "etl" THEN "reconcile" ELSE "validate"
    /\ UNCHANGED << Out, prog, files, fi, fmt, cur, pos, last_read, length, failed, unparsed,
                    examined, dropped, unique_records, raw_records, seen_names, ti,
                    transformed_records, arg, ret >>

----------------------------------------------------------------------------
(* The pipeline *)

NotCalled == Raise("not called")

Init ==
    /\ prog \in { "etl", "process_files" }
    /\ pc = "ingest"
    /\ files \in 0..MaxFiles
    /\ fi = 1
    /\ fmt = "json"
    /\ cur = "none"
    /\ pos = 0
    /\ last_read = "none"
    /\ length = 0
    /\ failed = FALSE
    /\ unparsed = 0
    /\ examined = {}
    /\ dropped = {}
    /\ unique_records = << >>
    /\ raw_records = << >>
    /\ seen_names = {}
    /\ ti = 0
    /\ transformed_records = << >>
    /\ arg = BlankRecord
    /\ ret = NotCalled
    /\ NoOutput

Next ==
    \/ EtlOpenFile
    \/ EtlIngestItem
    \/ EtlEndOfItems
    \/ EtlSingleRecord
    \/ BatchOpenFile
    \/ BatchIngestItem
    \/ BatchEndOfItems
    \/ BatchSingleRecord
    \/ CheckRaw
    \/ Transform
    \/ CheckTransformed

Spec == Init /\ [][Next]_vars

----------------------------------------------------------------------------
(* Direct calls of transform_record on one record *)

HoursText == << "9:00", " {en} ", "18:00" >>

HoursChoices ==
    { NoHours,
      HoursMap(<< >>),
      HoursMap(<< [day |-> "Tue", hours |-> Txt(HoursText)],
                  [day |-> "Mon", hours |-> Txt(HoursText)],
                  [day |-> "Sat", hours |-> Txt(<< "9:00", "-", "16:00" >>)] >>),
      HoursMap(<< [day |-> "Mon", hours |-> NullText] >>),
      HoursMap(<< [day |-> "Holiday", hours |-> Txt(HoursText)],
                  [day |-> "Sun", hours |-> Txt(HoursText)],
                  [day |-> "Sat", hours |-> Txt(HoursText)] >>),
      WeekdayText(<< >>),
      WeekdayText(<< Line("Monday", TRUE, HoursText), Line("Closed on holidays", FALSE, << >>),
                     Line("Tuesday", TRUE, HoursText) >>),
      HoursString }

Components ==
    { NoList, NullList,
      List(<< [types |-> << "locality" >>, long_name |-> Txt(<< "B", "e", "r", "n" >>)],
              [types |-> << "administrative_area_level_1", "political" >>,
               long_name |-> Txt(<< "Z", "u", "g" >>)] >>) }

\* records with top-level coordinates
CleanedRecords ==
    { [BlankRecord EXCEPT !.name = nm, !.latitude = la, !.lat = la2, !.longitude = ln,
                          !.lng = ln2, !.opening_hours = oh] :
        nm  \in { Txt(NameA), NoText },
        la  \in { Absent, Num(47), NumStr(47), BadStr, Null, Huge },
        la2 \in { Absent, Num(46), BadStr },
        ln  \in { Absent, Num(8), BadStr, Huge },
        ln2 \in { Absent, Num(7), BadStr },
        oh  \in HoursChoices }

\* records as the Places API returns them
ProviderRecords ==
    { [BlankRecord EXCEPT !.name = nm, !.geometry = g, !.opening_hours = oh,
                          !.address_components = ac, !.organic_certified = oc] :
        nm \in { Txt(NameA), Txt(NameB), Txt(NameC), NullText },
        g  \in { NoGeometry, Geometry("notmap", "absent", Absent, Absent),
                 Geometry("map", "absent", Absent, Absent),
                 Geometry("map", "notmap", Absent, Absent) }
               \cup { Geometry("map", "map", la, ln) :
                        la \in { Absent, Num(47), NumStr(47), BadStr, Null },
                        ln \in { Absent, Num(8), BadStr } },
        oh \in HoursChoices,
        ac \in Components,
        oc \in { NoFlag, Flag(TRUE) } }

CallRecords == CleanedRecords \cup ProviderRecords \cup { BareString }

CallInit ==
    /\ prog = "call"
    /\ pc = "call"
    /\ arg \in CallRecords
    /\ ret = NotCalled
    /\ files = 0 /\ fi = 1 /\ fmt = "json" /\ cur = "none" /\ pos = 0
    /\ last_read = "none" /\ length = 0 /\ failed = FALSE /\ unparsed = 0
    /\ examined = {} /\ dropped = {} /\ unique_records = << >> /\ raw_records = << >>
    /\ seen_names = {} /\ ti = 0 /\ transformed_records = << >>
    /\ NoOutput

Idle == << prog, files, fi, fmt, cur, pos, last_read, length, failed, unparsed, examined,
           dropped, unique_records, raw_records, seen_names, ti, transformed_records, Out >>

\* main.transform_record(arg, record_id)
CallTransformRecord ==
    /\ pc = "call"
    /\ \E record_id \in 1..2 : ret' = transform_record(arg, record_id)
    /\ pc' = "returned"
    /\ UNCHANGED << arg, Idle >>

\* etl_farmshops.transform_record(arg)
CallFarmshopsTransformRecord ==
    /\ pc = "call"
    /\ ret' = farmshops_transform_record(arg)
    /\ pc' = "returned_farmshops"
    /\ UNCHANGED << arg, Idle >>

\* main.transform_record on the record an earlier call returned, as when a
\* written file is ingested again: the keys of lines 497-512, opening_hours a string
CallTransformAgain ==
    /\ pc = "returned" /\ ret.ok
    /\ LET t == ret.val
           canonical ==
               [BlankRecord EXCEPT
                   !.name = t.name, !.description = t.description, !.address = t.address,
                   !.canton = t.canton, !.phone = t.phone, !.email = t.email,
                   !.website = t.website, !.products = List(t.products),
                   !.organic = t.organic, !.lat = Num(t.lat), !.lng = Num(t.lng),
                   !.image = t.image,
                   !.opening_hours = [t |-> "text", m |-> << >>, wt |-> << >>,
                                      text |-> t.opening_hours]]
       IN  /\ arg' = canonical
           /\ ret' = transform_record(canonical, t.id)
    /\ pc' = "returned_again"
    /\ UNCHANGED Idle

CallNext == CallTransformRecord \/ CallFarmshopsTransformRecord \/ CallTransformAgain

CallSpec == CallInit /\ [][CallNext]_vars

----------------------------------------------------------------------------
(* Direct calls of format_opening_hours_to_string, and of transform_record on
   records that carry a weekday_text list *)

\* the sequences of at most n distinct elements of S
RECURSIVE DistinctSeqs(_, _)
DistinctSeqs(S, n) ==
    IF n = 0 THEN { << >> }
    ELSE LET shorter == DistinctSeqs(S, n - 1)
         IN  shorter \cup
             UNION { { Append(q, d) : d \in S \ { q[i] : i \in 1..Len(q) } } :
                       q \in { x \in shorter : Len(x) = n - 1 } }

DayKeys == { "Mon", "Tue", "Wed", "Sat", "Sun" }
HoursTexts == { << "9:00-18:00" >>, << "9:00-16:00" >> }

\* day -> hours mappings, in every insertion order
HoursMappings ==
    UNION { { [i \in 1..Len(q) |-> [day |-> q[i], hours |-> Txt(h[i])]] :
                h \in [1..Len(q) -> HoursTexts] } : q \in DistinctSeqs(DayKeys, MaxDays) }

WeekdayNames == { "Monday", "Tuesday", "Wednesday", "Saturday", "Sunday" }
LineTexts == { << "9:00-18:00" >>, HoursText, << "9:00", " - ", "12:00", ", ", "14:00-18:00" >> }

\* weekday_text lists "<Weekday>: <hours>" with distinct weekday names
WeekdayTexts ==
    UNION { { [i \in 1..Len(q) |-> Line(q[i], TRUE, h[i])] :
                h \in [1..Len(q) -> LineTexts] } : q \in DistinctSeqs(WeekdayNames, MaxLines) }

\* format_opening_hours_to_string(opening_hours_dict)
CallFormatOpeningHours ==
    /\ pc = "call"
    /\ \E m \in HoursMappings :
          /\ arg' = [kind |-> "hours", entries |-> m]
          /\ ret' = format_opening_hours_to_string(m)
    /\ pc' = "returned_format"
    /\ UNCHANGED Idle

\* transform_record on a Places record whose opening_hours holds weekday_text
CallTransformWeekdayText ==
    /\ pc = "call"
    /\ \E w \in WeekdayTexts :
          LET record == [GoodB EXCEPT !.opening_hours = WeekdayText(w)]
          IN  /\ arg' = record
              /\ ret' = transform_record(record, 1)
    /\ pc' = "returned"
    /\ UNCHANGED Idle

FormatInit ==
    /\ prog = "call"
    /\ pc = "call"
    /\ arg = BlankRecord
    /\ ret = NotCalled
    /\ files = 0 /\ fi = 1 /\ fmt = "json" /\ cur = "none" /\ pos = 0
    /\ last_read = "none" /\ length = 0 /\ failed = FALSE /\ unparsed = 0
    /\ examined = {} /\ dropped = {} /\ unique_records = << >> /\ raw_records = << >>
    /\ seen_names = {} /\ ti = 0 /\ transformed_records = << >>
    /\ NoOutput

FormatNext == CallFormatOpeningHours \/ CallTransformWeekdayText

FormatSpec == FormatInit /\ [][FormatNext]_vars

----------------------------------------------------------------------------
(* A whole run over one JSON file that holds a list, the list given in arg *)

\* ingestion (main.py 186-199, etl_farmshops.py 214-229), the check of
\* raw_records, the transform loop and the check of transformed_records
RunOverList ==
    /\ pc = "call" /\ prog \in { "etl", "process_files" }
    /\ LET items == arg.items
           RECURSIVE Ingest(_, _)
           Ingest(rest, st) ==
               IF rest = << >> \/ st.raised THEN st
               ELSE LET r    == Head(rest)
                        does == Step(r, st.seen)
                    IN  IF does = "raise" THEN [st EXCEPT !.raised = TRUE]
                        ELSE Ingest(Tail(rest),
                                 [seen     |-> IF does = "add" THEN st.seen \cup { r.name.s }
                                               ELSE st.seen,
                                  unique   |-> IF does = "add"
                                               THEN Append(st.unique, Entry(r, 1, st.pos + 1))
                                               ELSE st.unique,
                                  examined |-> Noted(st.examined, r, 1, st.pos + 1),
                                  dropped  |-> Dropped(st.dropped, r, st.seen),
                                  pos      |-> st.pos + 1,
                                  raised   |-> FALSE])
           st  == Ingest(items, [seen |-> {}, unique |-> << >>, examined |-> {},
                                 dropped |-> {}, pos |-> 0, raised |-> FALSE])
           raw == IF st.raised THEN << >> ELSE st.unique        \* extend not reached
           call(i) == IF prog = "etl" THEN transform_record(raw[i].rec, i)
                      ELSE farmshops_transform_record(raw[i].rec)
           RECURSIVE Transformed(_)
           Transformed(n) ==
               IF n = 0 THEN << >>
               ELSE IF call(n).ok THEN Append(Transformed(n - 1), call(n).val)
               ELSE Transformed(n - 1)                           \* except: logged, skipped
           crashes == st.raised /\ prog = "process_files"        \* no handler
       IN  /\ seen_names' = st.seen
           /\ unique_records' = IF crashes THEN st.unique ELSE << >>   \* a new list per file
           /\ cur' = IF crashes THEN "list" ELSE "none"
           /\ examined' = st.examined
           /\ dropped' = st.dropped
           /\ pos' = st.pos
           /\ failed' = st.raised
           /\ raw_records' = raw
           /\ fi' = IF crashes THEN fi ELSE fi + 1
           /\ ti' = IF raw = << >> THEN ti ELSE Len(raw) + 1
           /\ transformed_records' = Transformed(Len(raw))
           /\ pc' = IF crashes THEN "crashed"
                    ELSE IF raw = << >> THEN "exit_no_records"
                    ELSE IF Transformed(Len(raw)) = << >> THEN "exit_no_transformed"
                    ELSE IF prog = "etl" THEN "reconcile" ELSE "validate"
           /\ length' = Len(items)
           /\ last_read' = "list"
    /\ UNCHANGED << Out, prog, files, fmt, unparsed, arg, ret >>

RunInit ==
    /\ prog \in { "etl", "process_files" }
    /\ pc = "call"
    /\ arg \in { [kind |-> "list", items |-> q] :
                   q \in UNION { [1..n -> JsonItems] : n \in 0..MaxItems } }
    /\ ret = NotCalled
    /\ files = 1 /\ fi = 1 /\ fmt = "json" /\ cur = "none" /\ pos = 0
    /\ last_read = "none" /\ length = 0 /\ failed = FALSE /\ unparsed = 0
    /\ examined = {} /\ dropped = {} /\ unique_records = << >> /\ raw_records = << >>
    /\ seen_names = {} /\ ti = 0 /\ transformed_records = << >>
    /\ NoOutput

RunNext == RunOverList

RunSpec == RunInit /\ [][RunNext]_vars

----------------------------------------------------------------------------
(* Transformed records as JSON objects: functions from keys to typed values *)

JStr(s)   == [ty |-> "str",   s |-> s]
JInt(n)   == [ty |-> "int",   n |-> n]
JFloat(x) == [ty |-> "float", x |-> x]
JBool(b)  == [ty |-> "bool",  b |-> b]
JList(l)  == [ty |-> "list",  l |-> l]
JDict(m)  == [ty |-> "dict",  m |-> m]
JNull     == [ty |-> "null"]

FromText(v) ==
    CASE v.t = "str"  -> JStr(v.s)
      [] v.t = "null" -> JNull
      [] v.t = "huge" -> [ty |-> "int", huge |-> TRUE]   \* an integer no float can hold
      [] OTHER        -> JList(<< "..." >>)

FromFlag(v) == IF v.t = "int" THEN JInt(1) ELSE JBool(v.b)

FromList(v) == IF v.t = "null" THEN JNull ELSE JList(v.l)

\* the dict main.transform_record returns
Object(t) ==
    [id            |-> JInt(t.id),
     name          |-> FromText(t.name),
     description   |-> FromText(t.description),
     address       |-> FromText(t.address),
     canton        |-> FromText(t.canton),
     phone         |-> FromText(t.phone),
     email         |-> FromText(t.email),
     website       |-> FromText(t.website),
     opening_hours |-> JStr(<< t.opening_hours >>),
     products      |-> JList(t.products),
     organic       |-> FromFlag(t.organic),
     lat           |-> JFloat(t.lat),
     lng           |-> JFloat(t.lng),
     image         |-> FromText(t.image)]

\* the dict etl_farmshops.transform_record returns
FarmshopsObject(t) ==
    [name              |-> FromText(t.name),
     address           |-> FromText(t.address),
     latitude          |-> JFloat(t.latitude),
     longitude         |-> JFloat(t.longitude),
     products          |-> FromList(t.products),
     organic_certified |-> FromFlag(t.organic_certified),
     payment_methods   |-> FromList(t.payment_methods),
     opening_hours     |-> JDict(t.opening_hours),
     website           |-> FromText(t.website),
     google_maps_url   |-> FromText(t.google_maps_url)]

\* type(reference)()
Zero(ty) ==
    CASE ty = "str"   -> JStr(<< >>)
      [] ty = "int"   -> JInt(0)
      [] ty = "float" -> JFloat(0)
      [] ty = "bool"  -> JBool(FALSE)
      [] ty = "list"  -> JList(<< >>)
      [] ty = "dict"  -> JDict(<< >>)
      [] OTHER        -> JNull

\* isinstance(value, type(reference)): bool is a subclass of int
IsInstance(value, reference) ==
    value.ty = reference.ty \/ (value.ty = "bool" /\ reference.ty = "int")

\* the number a string spells, for float(str) and int(str)
ParseNumber(s) ==
    IF \E n \in 0..99 : ToString(n) = Cat(s)
    THEN Return(CHOOSE n \in 0..99 : ToString(n) = Cat(s))
    ELSE Raise("ValueError")

\* float(value)
ToFloat(value) ==
    CASE value.ty = "str"   -> (IF ParseNumber(value.s).ok
                                THEN Return(JFloat(ParseNumber(value.s).val))
                                ELSE Raise("ValueError"))
      [] value.ty = "int"   -> (IF "n" \in DOMAIN value THEN Return(JFloat(value.n))
                                ELSE Raise("OverflowError"))
      [] value.ty = "float" -> Return(value)
      [] value.ty = "bool"  -> Return(JFloat(IF value.b THEN 1 ELSE 0))
      [] OTHER              -> Raise("TypeError")

\* int(value)
ToInt(value) ==
    CASE value.ty = "str"   -> (IF ParseNumber(value.s).ok
                                THEN Return(JInt(ParseNumber(value.s).val))
                                ELSE Raise("ValueError"))
      [] value.ty = "int"   -> Return(value)
      [] value.ty = "float" -> Return(JInt(value.x))
      [] value.ty = "bool"  -> Return(JInt(IF value.b THEN 1 ELSE 0))
      [] OTHER              -> Raise("TypeError")

\* str(value)
ToStr(value) ==
    CASE value.ty = "str"   -> value
      [] value.ty = "int"   -> JStr(<< IF "n" \in DOMAIN value THEN ToString(value.n)
                                         ELSE "1000..." >>)
      [] value.ty = "float" -> JStr(<< ToString(value.x), ".0" >>)
      [] value.ty = "bool"  -> JStr(<< IF value.b THEN "True" ELSE "False" >>)
      [] value.ty = "null"  -> JStr(<< "None" >>)
      [] value.ty = "list"  -> JStr(<< "[...]" >>)
      [] OTHER              -> JStr(<< "{...}" >>)

----------------------------------------------------------------------------
(* Schema files *)

Schema(obj)  == [loaded |-> "ok",         obj |-> obj]
Unreadable   == [loaded |-> "unreadable", obj |-> << >>]   \* open or json.load raises
EmptySchema  == [loaded |-> "empty",      obj |-> << >>]   \* not sample_data

\* a record of the application schema
RefApp ==
    [id |-> JInt(1), name |-> JStr(<< "x" >>), description |-> JStr(<< "x" >>),
     address |-> JStr(<< "x" >>), canton |-> JStr(Aargau), phone |-> JStr(<< "x" >>),
     email |-> JStr(<< "x" >>), website |-> JStr(<< "x" >>),
     opening_hours |-> JStr(<< "Mon-Fri: 8:00-12:00" >>), products |-> JList(<< "honey" >>),
     organic |-> JBool(TRUE), lat |-> JFloat(47), lng |-> JFloat(8),
     image |-> JStr(<< "x.jpg" >>)]

\* a record of the cleaned schema, as etl_farmshops.transform_record builds it
RefCleaned ==
    [name |-> JStr(<< "x" >>), address |-> JStr(<< "x" >>), latitude |-> JFloat(47),
     longitude |-> JFloat(8), products |-> JList(<< "honey" >>),
     organic_certified |-> JBool(TRUE), payment_methods |-> JList(<< "cash" >>),
     opening_hours |-> JDict(<< [day |-> "Mon", hours |-> Txt(HoursText)] >>),
     website |-> JStr(<< "x" >>), google_maps_url |-> JStr(<< "x" >>)]

\* {"phone": 0, "b": "x"}
RefExample == [phone |-> JInt(0), b |-> JStr(<< "x" >>)]

\* a sample whose opening_hours is a list of lines
RefHoursList == [name |-> JStr(<< "x" >>), opening_hours |-> JList(<< "Monday: 9:00-18:00" >>)]

EtlSchemas ==
    { Unreadable, EmptySchema, Schema(RefApp), Schema(RefCleaned), Schema(RefExample),
      Schema(RefHoursList),
      Schema([name |-> JStr(<< "x" >>), phone |-> JFloat(41)]) }   \* a number for a phone

FarmshopsSchemas ==
    LET Without(obj, key) == [k \in DOMAIN obj \ { key } |-> obj[k]]
        With(obj, key, value) ==
            [k \in DOMAIN obj \cup { key } |-> IF k = key THEN value ELSE obj[k]]
    IN
    { Unreadable, EmptySchema, Schema(RefCleaned),
      Schema(Without(RefCleaned, "website")),
      Schema(With(RefCleaned, "phone", JStr(<< "x" >>))),
      Schema(With(RefCleaned, "organic_certified", JInt(1))),
      Schema(With(RefCleaned, "latitude", JInt(47))) }

----------------------------------------------------------------------------
(* Schema reconciliation, etl: main.py 242-283 *)

\* lines 258-259 and 318-319: an empty opening_hours mapping becomes the default text
fix_opening_hours(record) ==
    IF "opening_hours" \in DOMAIN record /\ record["opening_hours"] = JDict(<< >>)
    THEN [record EXCEPT !["opening_hours"] = JStr(<< Fallback >>)]
    ELSE record

\* lines 265-280 for a key the record has: the value the key gets, or the
\* exception that leaves the inner try
reconcile_value(reference, value) ==
    IF IsInstance(value, reference) THEN Return(value)
    ELSE LET converted ==
                 CASE reference.ty = "float"            -> ToFloat(value)
                   [] reference.ty \in { "int", "bool" } -> ToInt(value)
                   [] reference.ty = "str"              -> Return(ToStr(value))
                   [] reference.ty = "list"             -> Return(JList(<< >>))
                   [] reference.ty = "dict"             -> Return(JDict(<< >>))
                   [] OTHER                             -> Return(value)
         IN  IF converted.ok THEN converted
             ELSE IF converted.err \in { "ValueError", "TypeError" }    \* line 278
             THEN Return(Zero(reference.ty))
             ELSE converted

\* reconciliation that keeps the keys of the reference only
reconcile_record_reference_keys(record, reference) ==
    LET fixed  == fix_opening_hours(record)
        shared == DOMAIN fixed \cap DOMAIN reference
        result == [key \in shared |-> reconcile_value(reference[key], fixed[key])]
    IN  IF \E key \in shared : ~result[key].ok
        THEN result[CHOOSE key \in shared : ~result[key].ok]
        ELSE Return([key \in DOMAIN reference |->
                        IF key \notin DOMAIN fixed THEN Zero(reference[key].ty)
                        ELSE result[key].val])

\* lines 256-280 for one record: the record as it ends, or the exception
\* that reaches the handler of lines 281-283
reconcile_record(record, reference) ==
    LET fixed  == fix_opening_hours(record)
        shared == DOMAIN fixed \cap DOMAIN reference
        result == [key \in shared |-> reconcile_value(reference[key], fixed[key])]
    IN  IF \E key \in shared : ~result[key].ok
        THEN result[CHOOSE key \in shared : ~result[key].ok]
        ELSE Return([key \in DOMAIN fixed \cup DOMAIN reference |->
                        IF key \notin DOMAIN reference THEN fixed[key]
                        ELSE IF key \notin DOMAIN fixed THEN Zero(reference[key].ty)
                        ELSE result[key].val])

\* lines 243-253: the schema file is read
LoadSchema ==
    /\ prog = "etl" /\ pc = "reconcile"
    /\ \E schema \in EtlSchemas :
          /\ schema_reference' = schema
          /\ pc' = IF schema.loaded = "ok" THEN "reconciling" ELSE "exit_schema"
    /\ UNCHANGED << prog, files, fi, fmt, cur, pos, last_read, length, failed, unparsed,
                    examined, dropped, unique_records, raw_records, seen_names, ti,
                    transformed_records, arg, ret, records_by_canton, aargau_records, wi,
                    written, valid >>

\* lines 256-283: every record is reconciled in place; an exception that
\* line 278 does not name ends the run at line 283 (sys.exit(1))
Reconcile ==
    /\ prog = "etl" /\ pc = "reconciling"
    /\ LET result == [i \in 1..Len(transformed_records) |->
                         reconcile_record(Object(transformed_records[i]),
                                          schema_reference.obj)]
       IN  IF \A i \in 1..Len(result) : result[i].ok
           THEN /\ transformed_records' = [i \in 1..Len(result) |-> result[i].val]
                /\ pc' = "group"
           ELSE /\ transformed_records' = transformed_records
                /\ pc' = "exit_schema"
    /\ UNCHANGED << prog, files, fi, fmt, cur, pos, last_read, length, failed, unparsed,
                    examined, dropped, unique_records, raw_records, seen_names, ti,
                    arg, ret, Out >>

----------------------------------------------------------------------------
(* Grouping by canton and the canton files, etl: main.py 285-340 *)

\* the key without the replacement of spaces and hyphens
canton_key_lowered(record) ==
    LET canton == IF "canton" \in DOMAIN record THEN record["canton"] ELSE JStr(Aargau)
    IN  IF canton.ty # "str" THEN Raise("AttributeError")
        ELSE Return(Cat(lower(canton.s)))

\* lines 291-294: record.get("canton", "Aargau").lower().replace(" ", "_").replace("-", "_")
canton_key(record) ==
    LET canton == IF "canton" \in DOMAIN record THEN record["canton"] ELSE JStr(Aargau)
    IN  IF canton.ty # "str" THEN Raise("AttributeError")          \* .lower()
        ELSE Return(Cat(replace(replace(lower(canton.s), " ", << "_" >>), "-", << "_" >>)))

\* lines 296-299 on an insertion-ordered dict
AddToGroup(groups, key, record) ==
    IF \E g \in 1..Len(groups) : groups[g].canton = key
    THEN [g \in 1..Len(groups) |->
             IF groups[g].canton = key
             THEN [groups[g] EXCEPT !.records = Append(@, record)] ELSE groups[g]]
    ELSE Append(groups, [canton |-> key, records |-> << record >>])

\* the loop that opens a new group for every record
RECURSIVE group_records_each_alone(_, _)
group_records_each_alone(records, acc) ==
    IF records = << >> \/ ~acc.ok THEN acc
    ELSE LET key == canton_key(Head(records))
         IN  IF ~key.ok THEN [acc EXCEPT !.ok = FALSE]
             ELSE group_records_each_alone(Tail(records),
                      [acc EXCEPT !.groups = Append(@, [canton  |-> key.val,
                                                        records |-> << Head(records) >>])])

\* lines 289-303: the loop over transformed_records, from the state acc
RECURSIVE group_records(_, _)
group_records(records, acc) ==
    IF records = << >> \/ ~acc.ok THEN acc
    ELSE LET record == Head(records)
             key    == canton_key(record)
         IN  IF ~key.ok THEN [acc EXCEPT !.ok = FALSE]              \* no handler
             ELSE LET groups == AddToGroup(acc.groups, key.val, record)
                  IN  group_records(Tail(records),
                          [groups |-> groups,
                           aargau |-> IF key.val = "aargau" \/ Len(groups) = 1
                                      THEN Append(acc.aargau, record) ELSE acc.aargau,
                           ok     |-> TRUE])

GroupByCanton ==
    /\ prog = "etl" /\ pc = "group"
    /\ LET result == group_records(transformed_records,
                                [groups |-> << >>, aargau |-> << >>, ok |-> TRUE])
       IN  /\ records_by_canton' = result.groups
           /\ aargau_records' = result.aargau
           /\ pc' = IF result.ok THEN "write" ELSE "crashed"
    /\ UNCHANGED << prog, files, fi, fmt, cur, pos, last_read, length, failed, unparsed,
                    examined, dropped, unique_records, raw_records, seen_names, ti,
                    transformed_records, arg, ret, schema_reference, wi, written, valid >>

\* a writer that also stores the group key in each record's canton
WriteCantonStamped ==
    /\ prog = "etl" /\ pc = "write" /\ wi <= Len(records_by_canton)
    /\ LET canton == records_by_canton[wi].canton
           fixed(records) == [i \in 1..Len(records) |->
                                 IF canton_key(records[i]).val = canton
                                 THEN [fix_opening_hours(records[i]) EXCEPT !["canton"] =
                                                                         JStr(<< canton >>)]
                                 ELSE records[i]]
           canton_records == fixed(records_by_canton[wi].records)
       IN  \E outcome \in { "written", "write_error", "makedirs_error" } :
              /\ records_by_canton' =
                    [records_by_canton EXCEPT ![wi].records =
                        IF outcome = "makedirs_error" THEN @ ELSE canton_records]
              /\ transformed_records' = IF outcome = "makedirs_error" THEN transformed_records
                                        ELSE fixed(transformed_records)
              /\ aargau_records' = IF outcome = "makedirs_error" THEN aargau_records
                                   ELSE fixed(aargau_records)
              /\ written' = IF outcome = "written"
                            THEN Append(written, [canton    |-> canton,
                                                  farmshops |-> canton_records])
                            ELSE written                       \* except: logged
              /\ pc' = IF outcome = "makedirs_error" THEN "crashed" ELSE pc
              /\ wi' = IF outcome = "makedirs_error" THEN wi ELSE wi + 1
    /\ UNCHANGED << prog, files, fi, fmt, cur, pos, last_read, length, failed, unparsed,
                    examined, dropped, unique_records, raw_records, seen_names, ti,
                    arg, ret, schema_reference, valid >>

\* lines 306-340 for the group at index wi; the records are the objects of
\* transformed_records and aargau_records, so the fix-up shows there too
WriteCanton ==
    /\ prog = "etl" /\ pc = "write" /\ wi <= Len(records_by_canton)
    /\ LET canton == records_by_canton[wi].canton
           fixed(records) == [i \in 1..Len(records) |->
                                 IF canton_key(records[i]).val = canton
                                 THEN fix_opening_hours(records[i]) ELSE records[i]]
           canton_records == fixed(records_by_canton[wi].records)
       IN  \E outcome \in { "written", "write_error", "makedirs_error" } :
              /\ records_by_canton' =
                    [records_by_canton EXCEPT ![wi].records =
                        IF outcome = "makedirs_error" THEN @ ELSE canton_records]
              /\ transformed_records' = IF outcome = "makedirs_error" THEN transformed_records
                                        ELSE fixed(transformed_records)
              /\ aargau_records' = IF outcome = "makedirs_error" THEN aargau_records
                                   ELSE fixed(aargau_records)
              /\ written' = IF outcome = "written"
                            THEN Append(written, [canton    |-> canton,
                                                  farmshops |-> canton_records])
                            ELSE written                       \* except: logged
              /\ pc' = IF outcome = "makedirs_error" THEN "crashed" ELSE pc
              /\ wi' = IF outcome = "makedirs_error" THEN wi ELSE wi + 1
    /\ UNCHANGED << prog, files, fi, fmt, cur, pos, last_read, length, failed, unparsed,
                    examined, dropped, unique_records, raw_records, seen_names, ti,
                    arg, ret, schema_reference, valid >>

\* the loop over records_by_canton ends; lines 343-373 need an empty dict
FinishWrite ==
    /\ prog = "etl" /\ pc = "write" /\ wi > Len(records_by_canton)
    /\ pc' = "done"
    /\ UNCHANGED << prog, files, fi, fmt, cur, pos, last_read, length, failed, unparsed,
                    examined, dropped, unique_records, raw_records, seen_names, ti,
                    transformed_records, arg, ret, Out >>

----------------------------------------------------------------------------
(* Validation and output, process_files: etl_farmshops.py 144-189, 286-301 *)

\* the validator that lets extra keys pass
validate_schema_allowing_extra(records, schema) ==
    /\ schema.loaded = "ok"
    /\ \A i \in 1..Len(records) :
          /\ DOMAIN schema.obj \subseteq DOMAIN records[i]
          /\ \A key \in DOMAIN schema.obj : IsInstance(records[i][key], schema.obj[key])

\* lines 144-189: False at the first record that differs, False on any exception
validate_schema(records, schema) ==
    /\ schema.loaded = "ok"
    /\ \A i \in 1..Len(records) :
          /\ DOMAIN records[i] = DOMAIN schema.obj
          /\ \A key \in DOMAIN schema.obj : IsInstance(records[i][key], schema.obj[key])

\* the list json.dump receives
OutputRecords == [i \in 1..Len(transformed_records) |-> FarmshopsObject(transformed_records[i])]

\* validation whose result is not looked at
ValidateUnheeded ==
    /\ prog = "process_files" /\ pc = "validate"
    /\ \E schema \in FarmshopsSchemas :
          /\ schema_reference' = schema
          /\ valid' = IF validate_schema(OutputRecords, schema) THEN "True" ELSE "False"
          /\ pc' = "write_output"
    /\ UNCHANGED << prog, files, fi, fmt, cur, pos, last_read, length, failed, unparsed,
                    examined, dropped, unique_records, raw_records, seen_names, ti,
                    transformed_records, arg, ret, records_by_canton, aargau_records, wi,
                    written >>

\* lines 286-289: if not validate_schema(...): return False
Validate ==
    /\ prog = "process_files" /\ pc = "validate"
    /\ \E schema \in FarmshopsSchemas :
          /\ schema_reference' = schema
          /\ valid' = IF validate_schema(OutputRecords, schema) THEN "True" ELSE "False"
          /\ pc' = IF validate_schema(OutputRecords, schema) THEN "write_output"
                   ELSE "returned_false"
    /\ UNCHANGED << prog, files, fi, fmt, cur, pos, last_read, length, failed, unparsed,
                    examined, dropped, unique_records, raw_records, seen_names, ti,
                    transformed_records, arg, ret, records_by_canton, aargau_records, wi,
                    written >>

\* lines 291-301: the output file is written, or opening it raises
WriteOutput ==
    /\ prog = "process_files" /\ pc = "write_output"
    /\ \E ok \in BOOLEAN :
          /\ written' = IF ok THEN Append(written, [canton    |-> "output_file",
                                                    farmshops |-> OutputRecords])
                        ELSE written
          /\ pc' = IF ok THEN "returned_true" ELSE "returned_false"
    /\ UNCHANGED << prog, files, fi, fmt, cur, pos, last_read, length, failed, unparsed,
                    examined, dropped, unique_records, raw_records, seen_names, ti,
                    transformed_records, arg, ret, schema_reference, records_by_canton,
                    aargau_records, wi, valid >>

----------------------------------------------------------------------------
(* The stages after the transform loop, from the end of that loop *)

OutB == [GoodB EXCEPT !.address_components =
            List(<< [types |-> << "administrative_area_level_1", "political" >>,
                     long_name |-> Txt(<< "Z", "u", "g" >>)] >>)]
OutC == [BlankRecord EXCEPT !.name = Txt(NameC), !.latitude = Num(47), !.longitude = Num(8),
                            !.canton = Txt(<< "B", "a", "s", "e", "l", "-", "L", "a", "n", "d" >>),
                            !.phone = Txt(<< "5" >>),
                            !.organic_certified = FlagOne]
OutD == [BlankRecord EXCEPT !.name = Txt(<< "G", "u", "t" >>), !.latitude = Num(47),
                            !.longitude = Num(8),
                            !.canton = Txt(<< "b", "a", "s", "e", "l", " ", "l", "a", "n", "d" >>),
                            !.opening_hours =
                                HoursMap(<< [day |-> "Mon", hours |-> Txt(HoursText)] >>)]
\* "canton": null, "products": null
OutE == [BlankRecord EXCEPT !.name = Txt(<< "A", "l", "p" >>), !.latitude = Num(47),
                            !.longitude = Num(8), !.canton = NullText,
                            !.products = NullList]

\* the last has "phone": 1000... (400 digits)
EtlOutRecords ==
    { GoodA, OutB, OutC, OutD, OutE,
      [GoodA EXCEPT !.name = Txt(<< "O", "s", "t" >>), !.phone = [t |-> "huge", s |-> << >>]] }
FarmshopsOutRecords == { GoodA, OutB, OutC, OutE }

OutInit ==
    /\ prog \in { "etl", "process_files" }
    /\ \E q \in DistinctSeqs(IF prog = "etl" THEN EtlOutRecords ELSE FarmshopsOutRecords,
                             MaxRecords) \ { << >> } :
          /\ raw_records = [i \in 1..Len(q) |-> Entry(q[i], 1, i)]
          /\ transformed_records =
                [i \in 1..Len(q) |-> IF prog = "etl" THEN transform_record(q[i], i).val
                                     ELSE farmshops_transform_record(q[i]).val]
          /\ examined = { [name |-> q[i].name.s, src |-> 1, pos |-> i] : i \in 1..Len(q) }
          /\ seen_names = { q[i].name.s : i \in 1..Len(q) }
          /\ pos = Len(q) /\ length = Len(q) /\ ti = Len(q) + 1
    /\ pc = IF prog = "etl" THEN "reconcile" ELSE "validate"
    /\ files = 1 /\ fi = 2 /\ fmt = "json" /\ cur = "none" /\ last_read = "list"
    /\ failed = FALSE /\ unparsed = 0 /\ dropped = {} /\ unique_records = << >>
    /\ arg = BlankRecord /\ ret = NotCalled
    /\ NoOutput

OutNext ==
    \/ LoadSchema
    \/ Reconcile
    \/ GroupByCanton
    \/ WriteCanton
    \/ FinishWrite
    \/ Validate
    \/ WriteOutput

OutSpec == OutInit /\ [][OutNext]_vars

----------------------------------------------------------------------------
(* Properties of ingestion *)

\* C1: raw_records holds at most one record per name; each record is the first
\* one with its name that the ingestion loop met, in source-then-position
\* order; and the records stand in the order of those first occurrences.
C1_FirstOccurrenceKept ==
    /\ \A i, j \in 1..Len(raw_records) :
          i # j => raw_records[i].rec.name # raw_records[j].rec.name
    /\ \A i \in 1..Len(raw_records) :
          [name |-> raw_records[i].rec.name.s, src |-> raw_records[i].src,
           pos |-> raw_records[i].pos] \in examined
    /\ \A i, j \in 1..Len(raw_records) :
          i < j => LET a == raw_records[i]
                       b == raw_records[j]
                   IN  a.src < b.src \/ (a.src = b.src /\ a.pos < b.pos)

\* a run of etl that dropped a duplicate and collected records of two files
C1_Witness ==
    /\ prog = "etl" /\ pc = "transform"
    /\ "duplicate" \in dropped
    /\ Len(raw_records) >= 2
    /\ raw_records[1].src # raw_records[2].src

\* C2: no record without a name (key absent, or empty value) is among the
\* ingested records, whether it came in a list, a wrapper or as a single mapping.
C2_NamelessExcluded ==
    \A k \in 1..Len(raw_records \o unique_records) :
        LET r == (raw_records \o unique_records)[k].rec
        IN  r.kind = "dict" /\ r.name.t = "str" /\ r.name.s # << >>

\* a wrapper whose nameless records were left out while another was taken
C2_Witness ==
    /\ last_read = "wrapper" /\ cur = "none"
    /\ { "no_name", "empty_name" } \subseteq dropped
    /\ \E i \in 1..Len(raw_records) : raw_records[i].src = fi - 1

\* C8: a source that cannot be read or parsed adds no record and does not end
\* the run, and the run stops for want of records only when none was collected
\* after every source was tried.
C8_BadSourceSkipped ==
    /\ last_read \in Unparsable => pc # "crashed"
    /\ pc = "exit_no_records" => raw_records = << >> /\ fi > files

\* C9: a wrapper mapping is unwrapped: once the file is done without an error,
\* every record of its list has gone through the loop body.
C9_WrapperUnwrapped ==
    (last_read = "wrapper" /\ cur = "none" /\ ~failed) => pos = length

----------------------------------------------------------------------------
(* Properties of the transform loop *)

\* C3: the k-th accepted record of etl has id k.
C3_IdsCountAccepted ==
    prog = "etl" =>
        \A k \in 1..Len(transformed_records) : transformed_records[k].id = k

\* C7: a raw record whose transform raises is skipped, every other raw record
\* is transformed and kept, in order, and the run stops after the loop only
\* when no record was transformed.
C7_FailedTransformSkipped ==
    LET \* the results of the successful calls for raw_records[1..n], in order
        kept[n \in 0..Len(raw_records)] ==
            IF n = 0 THEN << >>
            ELSE IF TransformCall(n).ok THEN Append(kept[n - 1], TransformCall(n).val)
            ELSE kept[n - 1]
    IN  /\ pc = "transform" => transformed_records = kept[ti - 1]
        /\ pc \in { "reconcile", "validate", "exit_no_transformed" } =>
              /\ transformed_records = kept[Len(raw_records)]
              /\ pc = "exit_no_transformed" <=>
                    \A i \in 1..Len(raw_records) : ~TransformCall(i).ok

\* the loop went on after a failure and kept a later record
C7_Witness ==
    /\ pc \in { "reconcile", "validate" }
    /\ \E i, j \in 1..Len(raw_records) :
          i < j /\ ~TransformCall(i).ok /\ TransformCall(j).ok
    /\ Len(transformed_records) < Len(raw_records)

----------------------------------------------------------------------------
(* Properties of transform_record *)

\* the values the provider branch reads
GeoLat(g) == IF g.g = "map" /\ g.loc = "map" THEN Get(g.lat, Num(0)) ELSE Num(0)
GeoLng(g) == IF g.g = "map" /\ g.loc = "map" THEN Get(g.lng, Num(0)) ELSE Num(0)

\* the values the cleaned branch of main.py reads
LatValue(r) == Get(r.latitude, Get(r.lat, Num(0)))
LngValue(r) == Get(r.longitude, Get(r.lng, Num(0)))

IsCleanedShape(r) == r.kind = "dict" /\ (r.latitude.t # "absent" \/ r.lat.t # "absent")
IsProviderShape(r) == r.kind = "dict" /\ r.latitude.t = "absent" /\ r.lat.t = "absent"

\* C4: transform_record raises exactly when its argument is a bare string.
C4_RaisesOnlyOnBareString ==
    pc = "returned" => (ret.ok <=> arg.kind = "dict")

\* C5: for a provider-shape record whose geometry and location are mappings or
\* missing (and whose other fields are well typed) transform_record returns,
\* and lat and lng are each the number read from geometry.location, or 0 when
\* that value is missing or no number.
C5_ProviderCoordsDefault ==
  LET CoordOrZero(v) == IF float(v).ok THEN float(v).val ELSE 0 IN
    /\ ( /\ pc = "returned" /\ IsProviderShape(arg)
         /\ arg.geometry.g # "notmap" /\ arg.geometry.loc # "notmap"
         /\ arg.name.t = "str" /\ arg.address_components.t # "null"
         /\ arg.opening_hours.t # "text" )
       => /\ ret.ok
          /\ ret.val.lat = CoordOrZero(GeoLat(arg.geometry))
          /\ ret.val.lng = CoordOrZero(GeoLng(arg.geometry))
    /\ ( /\ pc = "returned_farmshops" /\ arg.kind = "dict"
         /\ (arg.latitude.t = "absent" \/ arg.longitude.t = "absent")
         /\ arg.geometry.g # "notmap" /\ arg.geometry.loc # "notmap"
         /\ arg.opening_hours.t # "text" )
       => /\ ret.ok
          /\ ret.val.latitude = CoordOrZero(GeoLat(arg.geometry))
          /\ ret.val.longitude = CoordOrZero(GeoLng(arg.geometry))

C10_DefaultOpeningHours ==
    ( /\ pc = "returned" /\ arg.kind = "dict" /\ ret.ok
      /\ (arg.opening_hours = NoHours \/ arg.opening_hours = HoursMap(<< >>)) )
    => ret.val.opening_hours = "Mon-Fri: 9:00-18:00, Sat: 9:00-16:00"

\* a provider-shape record with an empty opening_hours mapping was transformed
C10_Witness ==
    /\ pc = "returned" /\ ret.ok
    /\ IsProviderShape(arg)
    /\ arg.opening_hours = HoursMap(<< >>)

----------------------------------------------------------------------------
(* Properties of format_opening_hours_to_string *)

\* C12 as stated: the mapping {Mon, Tue, Wed: "9:00-18:00", Sat: "9:00-16:00"}
\* gives "Mon-Wed: 9:00-18:00, Sat: 9:00-16:00" whatever the insertion order
\* of its days.
C12_AnyInsertionOrder ==
    ( /\ pc = "returned_format"
      /\ { arg.entries[i] : i \in 1..Len(arg.entries) } =
            { [day |-> "Mon", hours |-> Txt(<< "9:00-18:00" >>)],
              [day |-> "Tue", hours |-> Txt(<< "9:00-18:00" >>)],
              [day |-> "Wed", hours |-> Txt(<< "9:00-18:00" >>)],
              [day |-> "Sat", hours |-> Txt(<< "9:00-16:00" >>)] } )
    => ret.ok /\ ret.val = "Mon-Wed: 9:00-18:00, Sat: 9:00-16:00"

\* C12 amended: the days that share an hours string form one group; the groups
\* stand in the order in which their hours string first appears in the
\* mapping; inside a group the days are in week order and every maximal run of
\* consecutive weekdays is written "First-Last", a lone day by its name.  The
\* example mapping gives "Mon-Wed: 9:00-18:00, Sat: 9:00-16:00" when Sat is not
\* the first key inserted.
C12_GroupsInOrderOfAppearance ==
    pc = "returned_format" =>
        LET m == arg.entries
            Week == << "Mon", "Tue", "Wed", "Thu", "Fri", "Sat", "Sun" >>
            at(d) == CHOOSE k \in 1..7 : Week[k] = d
            asc(S) == CHOOSE q \in [1..Cardinality(S) -> S] :
                          \A a, b \in 1..Cardinality(S) : a < b => q[a] < q[b]
            firsts == { i \in 1..Len(m) : \A j \in 1..(i - 1) : m[j].hours # m[i].hours }
            D(i) == { at(m[y].day) : y \in { z \in 1..Len(m) : m[z].hours = m[i].hours } }
            starts(S) == { k \in S : k - 1 \notin S }
            end(S, k) == CHOOSE e \in k..7 : (\A x \in k..e : x \in S) /\ e + 1 \notin S
            label(S, k) == IF end(S, k) = k THEN Week[k]
                           ELSE Week[k] \o "-" \o Week[end(S, k)]
            labels(S) == [n \in 1..Cardinality(starts(S)) |-> label(S, asc(starts(S))[n])]
            part(i) == join(", ", labels(D(i))) \o ": " \o Cat(m[i].hours.s)
            parts == [n \in 1..Cardinality(firsts) |-> part(asc(firsts)[n])]
        IN  /\ ret.ok
            /\ m # << >> => ret.val = join(", ", parts)
            /\ ( /\ Len(m) = 4 /\ m[1].day # "Sat"
                 /\ \A x \in 1..4 :
                       m[x].hours.s = IF m[x].day = "Sat" THEN << "9:00-16:00" >>
                                      ELSE << "9:00-18:00" >>
                 /\ { m[x].day : x \in 1..4 } = { "Mon", "Tue", "Wed", "Sat" } )
                => ret.val = "Mon-Wed: 9:00-18:00, Sat: 9:00-16:00"

\* the example mapping with Sat inserted first
C12_Witness ==
    /\ pc = "returned_format" /\ ret.ok
    /\ Len(arg.entries) = 4 /\ arg.entries[1].day = "Sat"
    /\ arg.entries[3].day = "Wed" /\ arg.entries[4].day = "Mon"
    /\ ret.val = "Sat: 9:00-16:00, Mon-Wed: 9:00-18:00"

\* C13: for a weekday_text list of lines "<Weekday>: <hours>" with distinct
\* English weekday names, transform_record (parse, then format) returns an
\* opening_hours string made of parts "<labels>: <hours>" in which every input
\* day lies in exactly one label (its own name, or a range of days that all
\* came with the same hours), and that label's part carries the day's own
\* hours text with the dash variants written "-".
C13_ParseThenFormatCoversEachDay ==
    (pc = "returned" /\ arg.opening_hours.t = "wt" /\ arg.opening_hours.wt # << >>) =>
        LET w == arg.opening_hours.wt
            Full == << "Monday", "Tuesday", "Wednesday", "Thursday", "Friday", "Saturday",
                       "Sunday" >>
            Week == << "Mon", "Tue", "Wed", "Thu", "Fri", "Sat", "Sun" >>
            at(d) == CHOOSE k \in 1..7 : Full[k] = d
            norm(h) == Cat([n \in 1..Len(h) |->
                              IF h[n] \in { " {en} ", " - " } THEN "-" ELSE h[n]])
            asc(S) == CHOOSE q \in [1..Cardinality(S) -> S] :
                          \A a, b \in 1..Cardinality(S) : a < b => q[a] < q[b]
            firsts == { i \in 1..Len(w) : \A j \in 1..(i - 1) : w[j].tail # w[i].tail }
            D(i) == { at(w[y].head) : y \in { z \in 1..Len(w) : w[z].tail = w[i].tail } }
            starts(S) == { k \in S : k - 1 \notin S }
            end(S, k) == CHOOSE e \in k..7 : (\A x \in k..e : x \in S) /\ e + 1 \notin S
            label(S, k) == IF end(S, k) = k THEN Week[k]
                           ELSE Week[k] \o "-" \o Week[end(S, k)]
            labels(S) == [n \in 1..Cardinality(starts(S)) |-> label(S, asc(starts(S))[n])]
            part(i) == join(", ", labels(D(i))) \o ": " \o norm(w[i].tail)
            parts == [n \in 1..Cardinality(firsts) |-> part(asc(firsts)[n])]
            covering(y) == { c \in firsts \X (1..7) :
                               /\ c[2] \in starts(D(c[1]))
                               /\ c[2] <= at(w[y].head)
                               /\ at(w[y].head) <= end(D(c[1]), c[2]) }
        IN  /\ ret.ok
            /\ ret.val.opening_hours = join(", ", parts)
            /\ \A y \in 1..Len(w) :
                  /\ Cardinality(covering(y)) = 1
                  /\ \A c \in covering(y) : w[c[1]].tail = w[y].tail

\* Sunday and Saturday share their hours and come out as one range; Monday's
\* hours had a spaced dash
C13_Witness ==
    /\ pc = "returned" /\ ret.ok
    /\ arg.opening_hours.t = "wt" /\ Len(arg.opening_hours.wt) = 3
    /\ arg.opening_hours.wt[1].head = "Sunday"
    /\ ret.val.opening_hours = "Sat-Sun: 9:00-18:00, Mon: 9:00-12:00, 14:00-18:00"

\* C14: for a provider-shape record the organic field is true exactly when one
\* of the keywords bio, organic, oeko (o-umlaut), naturkost, demeter, knospe
\* occurs in the lower-cased name or organic_certified is true.
C14_OrganicFromKeywords ==
    (pc = "returned" /\ IsProviderShape(arg) /\ ret.ok) =>
        ret.val.organic =
            Flag( \/ Get(arg.organic_certified, Flag(FALSE)).b
                  \/ \E keyword \in organic_keywords : Contains(keyword, lower(arg.name.s)) )

\* C11: in every record the etl has written to a canton file, opening_hours
\* is not empty: not "", not an empty mapping, not an empty list.
C11_WrittenOpeningHoursNotEmpty ==
    prog = "etl" =>
        \A f \in 1..Len(written) : \A i \in 1..Len(written[f].farmshops) :
            LET opening_hours == written[f].farmshops[i]["opening_hours"]
            IN  /\ opening_hours.ty = "str"  => Cat(opening_hours.s) # ""
                /\ opening_hours.ty = "list" => opening_hours.l # << >>
                /\ opening_hours.ty = "dict" => opening_hours.m # << >>

\* C15: after reconciliation every key of the schema reference that the record
\* lacked holds the zero value of the reference value's type, and a value that
\* was present with another type holds a value of the reference type whenever
\* the conversion to that type succeeds (to bool and to str it always does);
\* under the reference {"phone": 0, "b": "x"} a record with "phone": "5" ends
\* with "phone": 5 and "b": "".
C15_ReconcileGivesReferenceTypes ==
    (prog = "etl" /\ pc = "group") =>
        \A i \in 1..Len(transformed_records) :
            LET reference == schema_reference.obj
                before == Object(transform_record(raw_records[i].rec, i).val)
                after  == transformed_records[i]
                succeeds(ty, value) ==
                    CASE ty = "float" -> ToFloat(value).ok
                      [] ty = "int"   -> ToInt(value).ok
                      [] OTHER        -> TRUE
            IN  /\ \A key \in DOMAIN reference :
                      IF key \notin DOMAIN before
                      THEN after[key] = Zero(reference[key].ty)
                      ELSE (before[key].ty # reference[key].ty
                              /\ succeeds(reference[key].ty, before[key]))
                           => after[key].ty = reference[key].ty
                /\ (reference = RefExample /\ before["phone"] = JStr(<< "5" >>))
                      => (after["phone"] = JInt(5) /\ after["b"] = JStr(<< >>))

\* C16: validate_schema returns True only when every record's key set equals
\* the reference's key set; a batch with a record whose key set differs (one
\* extra key, the shared keys all matching in type) gets False.
C16_ValidOnlyWithEqualKeySets ==
    (prog = "process_files" /\ valid # "none") =>
        LET reference == schema_reference.obj
            differs == \E i \in 1..Len(OutputRecords) :
                          DOMAIN OutputRecords[i] # DOMAIN reference
        IN  /\ valid = "True" => (schema_reference.loaded = "ok" /\ ~differs)
            /\ (schema_reference.loaded = "ok" /\ differs) => valid = "False"

\* validation returned False for a batch whose records have exactly one key
\* more than the reference and match it in type on every shared key
C16_Witness ==
    /\ prog = "process_files" /\ pc = "returned_false" /\ valid = "False"
    /\ schema_reference.loaded = "ok"
    /\ \A i \in 1..Len(OutputRecords) :
          /\ DOMAIN OutputRecords[i] = DOMAIN schema_reference.obj \cup { "website" }
          /\ "website" \notin DOMAIN schema_reference.obj
          /\ \A key \in DOMAIN schema_reference.obj :
                OutputRecords[i][key].ty = schema_reference.obj[key].ty

\* C17: validate_schema returns True only if, for every record and every key,
\* the type of the record's value is exactly the type of the reference's
\* value; a bool under a key whose reference value is an int gives False.
C17_ValidOnlyWithExactTypes ==
    (prog = "process_files" /\ valid = "True") =>
        \A i \in 1..Len(OutputRecords) : \A key \in DOMAIN schema_reference.obj :
            OutputRecords[i][key].ty = schema_reference.obj[key].ty

\* C18: process_files writes the output file only after validate_schema has
\* returned True for the whole batch; when validation returns False the run
\* returns False with no output file written.
C18_OutputOnlyAfterValidation ==
    prog = "process_files" =>
        /\ written # << >> => valid = "True"
        /\ pc = "write_output" => valid = "True"
        /\ valid = "False" => (pc = "returned_false" /\ written = << >>)
        /\ pc = "returned_true" => (valid = "True" /\ Len(written) = 1)

\* a batch whose first record passes and whose second record fails the type
\* test: the run has returned False and nothing was written
C18_Witness ==
    /\ prog = "process_files" /\ pc = "returned_false" /\ valid = "False"
    /\ schema_reference = Schema(RefCleaned)
    /\ Len(OutputRecords) = 2
    /\ validate_schema(<< OutputRecords[1] >>, schema_reference)
    /\ ~validate_schema(<< OutputRecords[2] >>, schema_reference)
    /\ written = << >>

C20_OneGroupPerCantonValue ==
    (prog = "etl" /\ pc \in { "write", "done" }) =>
        LET n == Len(transformed_records)
            values == { transformed_records[i]["canton"].s : i \in 1..n }
            groups == records_by_canton
        IN  /\ Len(groups) = Cardinality(values)
            /\ Cardinality({ c \in (1..Len(groups)) \X (1..n) :
                               c[2] <= Len(groups[c[1]].records) }) = n

\* C20 amended: grouping n records gives one group for each distinct
\* normalized key (the canton lower-cased, spaces and hyphens turned into
\* "_"), so at most one per distinct canton value, and the record counts of
\* the groups sum to n.
C20_OneGroupPerNormalizedKey ==
    (prog = "etl" /\ pc \in { "write", "done" }) =>
        LET n == Len(transformed_records)
            norm(s) == [j \in 1..Len(s) |->
                           IF s[j] \in { " ", "-" } THEN "_" ELSE lower(<< s[j] >>)[1]]
            values == { transformed_records[i]["canton"].s : i \in 1..n }
            keys   == { Cat(norm(v)) : v \in values }
            groups == records_by_canton
        IN  /\ Len(groups) = Cardinality(keys)
            /\ { groups[g].canton : g \in 1..Len(groups) } = keys
            /\ Len(groups) <= Cardinality(values)
            /\ Cardinality({ c \in (1..Len(groups)) \X (1..n) :
                               c[2] <= Len(groups[c[1]].records) }) = n

\* "Basel-Land" and "basel land" are two canton values with one key: three
\* records of three canton values end in two groups
C20_Witness ==
    /\ prog = "etl" /\ pc = "write" /\ wi = 1
    /\ Len(transformed_records) = 3
    /\ Cardinality({ transformed_records[i]["canton"].s : i \in 1..3 }) = 3
    /\ Len(records_by_canton) = 2
    /\ \E g \in 1..2 : records_by_canton[g].canton = "basel_land"
                       /\ Len(records_by_canton[g].records) = 2

\* C24: no value of a record makes the reconcile step end the run: once the
\* schema reference is loaded, a failed conversion puts the zero value of the
\* reference type and the run goes on, so the run exits in the schema stage
\* only for a schema file that could not be read or was empty.
C24_ReconcileNeverAborts ==
    (prog = "etl" /\ pc = "exit_schema") => schema_reference.loaded # "ok"

\* C21: the writer changes no field of a record other than opening_hours, and
\* opening_hours only from an empty value to the default text: every record in
\* a canton file equals the record as reconciliation left it, except that an
\* empty opening_hours holds "Mon-Fri: 9:00-18:00, Sat: 9:00-16:00".
C21_WriterKeepsReconciledFields ==
    prog = "etl" =>
        \A f \in 1..Len(written) : \A j \in 1..Len(written[f].farmshops) :
            LET record == written[f].farmshops[j]
                i == record["id"].n
                reconciled == reconcile_record(
                                  Object(transform_record(raw_records[i].rec, i).val),
                                  schema_reference.obj).val
                empty(v) == v \in { JStr(<< >>), JList(<< >>), JDict(<< >>) }
            IN  /\ DOMAIN record = DOMAIN reconciled
                /\ \A key \in DOMAIN record \ { "opening_hours" } :
                      record[key] = reconciled[key]
                /\ \/ record["opening_hours"] = reconciled["opening_hours"]
                   \/ /\ empty(reconciled["opening_hours"])
                      /\ record["opening_hours"] = JStr(<< Fallback >>)

\* a record reconciled to an empty opening_hours mapping was written with the
\* default text, its other fields as reconciled
C21_Witness ==
    /\ prog = "etl" /\ pc = "done" /\ Len(written) = 2
    /\ schema_reference = Schema(RefCleaned)
    /\ \A f \in 1..2 : \A j \in 1..Len(written[f].farmshops) :
          /\ written[f].farmshops[j]["opening_hours"] = JStr(<< Fallback >>)
          /\ written[f].farmshops[j]["latitude"] = JFloat(0)
          /\ written[f].farmshops[j]["lat"] = JFloat(47)

\* C22: a failure while producing one canton group's output, be it creating
\* its directory or writing its file, does not end the run: every pass of the
\* writer loop leaves the run in the loop, at the next group.
C22_WriterLoopGoesOn ==
    [][ (prog = "etl" /\ pc = "write" /\ wi <= Len(records_by_canton))
            => (pc' = "write" /\ wi' = wi + 1) ]_vars

\* C23: in the opening_hours text made from a day -> hours mapping, the days
\* of a group that are not in the Mon..Sun table come after the weekdays of
\* the group, each under its own name: the labels of a group are the maximal
\* runs of its weekdays, then its other days one by one, so no "First-Last"
\* label begins or ends with such a day, also when the group holds Sun.
C23_UnknownDaysStandAlone ==
    ( /\ pc = "returned" /\ ret.ok
      /\ arg.latitude.t # "absent" \/ arg.lat.t # "absent"
      /\ arg.opening_hours.t = "map" /\ arg.opening_hours.m # << >> ) =>
        LET m == arg.opening_hours.m
            Week == << "Mon", "Tue", "Wed", "Thu", "Fri", "Sat", "Sun" >>
            known(d) == \E k \in 1..7 : Week[k] = d
            at(d) == CHOOSE k \in 1..7 : Week[k] = d
            asc(S) == CHOOSE q \in [1..Cardinality(S) -> S] :
                          \A a, b \in 1..Cardinality(S) : a < b => q[a] < q[b]
            firsts == { i \in 1..Len(m) : \A j \in 1..(i - 1) : m[j].hours # m[i].hours }
            D(i) == { at(m[y].day) : y \in { z \in 1..Len(m) : m[z].hours = m[i].hours
                                                               /\ known(m[z].day) } }
            other(i) == LET stands(e) == e.hours = m[i].hours /\ ~known(e.day)
                            left == SelectSeq(m, stands)
                        IN  [n \in 1..Len(left) |-> left[n].day]
            starts(S) == { k \in S : k - 1 \notin S }
            end(S, k) == CHOOSE e \in k..7 : (\A x \in k..e : x \in S) /\ e + 1 \notin S
            label(S, k) == IF end(S, k) = k THEN Week[k]
                           ELSE Week[k] \o "-" \o Week[end(S, k)]
            labels(S) == [n \in 1..Cardinality(starts(S)) |-> label(S, asc(starts(S))[n])]
            part(i) == join(", ", labels(D(i)) \o other(i)) \o ": "
                         \o clean_hours(m[i].hours.s)
            parts == [n \in 1..Cardinality(firsts) |-> part(asc(firsts)[n])]
        IN  ret.val.opening_hours = join(", ", parts)

\* C28: transform_record applied to a record it returned earlier gives a
\* record with the same name, description, address, canton, phone, email,
\* website, opening_hours, products, organic, lat, lng and image.
C28_TransformIdempotent ==
    pc = "returned_again" =>
        /\ ret.ok
        /\ ret.val.name = arg.name
        /\ ret.val.description = arg.description
        /\ ret.val.address = arg.address
        /\ ret.val.canton = arg.canton
        /\ ret.val.phone = arg.phone
        /\ ret.val.email = arg.email
        /\ ret.val.website = arg.website
        /\ ret.val.products = arg.products.l
        /\ ret.val.organic = arg.organic
        /\ ret.val.lat = arg.lat.v
        /\ ret.val.lng = arg.lng.v
        /\ ret.val.image = arg.image
        /\ ret.val.opening_hours = arg.opening_hours.text

\* C25: reconciliation keeps every key of a record that the schema reference
\* does not have, with its value: after the step such a key holds what it held
\* before.
C25_ExtraKeysKept ==
    (prog = "etl" /\ pc = "group") =>
        \A i \in 1..Len(transformed_records) :
            LET before == Object(transform_record(raw_records[i].rec, i).val)
                after  == transformed_records[i]
            IN  \A key \in DOMAIN before \ DOMAIN schema_reference.obj :
                    key \in DOMAIN after /\ after[key] = before[key]

\* reconciled against {"phone": 0, "b": "x"}: thirteen of the fourteen keys of
\* the records are not in the reference; phone "5" became 5 and b was added
C25_Witness ==
    /\ prog = "etl" /\ pc = "group"
    /\ schema_reference = Schema(RefExample)
    /\ Len(transformed_records) = 2
    /\ transformed_records[1]["phone"] = JInt(5)
    /\ DOMAIN transformed_records[1] = DOMAIN RefApp \cup { "b" }
    /\ transformed_records[1]["name"] = JStr(NameC)

\* C27: after reconciliation every record has every key of the schema
\* reference, and the value under each such key has the type of the
\* reference's value.
C27_ReconciledHasReferenceTypes ==
    (prog = "etl" /\ pc = "group") =>
        \A i \in 1..Len(transformed_records) : \A key \in DOMAIN schema_reference.obj :
            /\ key \in DOMAIN transformed_records[i]
            /\ transformed_records[i][key].ty = schema_reference.obj[key].ty

\* C26: an etl run that yields no canton groups, its input being empty, ends
\* with a single file written under the default canton key "aargau".
C26_EmptyRunWritesAargau ==
    (prog = "etl" /\ pc \in { "exit_no_records", "exit_no_transformed" }) =>
        /\ Len(written) = 1
        /\ written[1].canton = "aargau"

\* C30: when the processing of a source file has failed part-way in the etl
\* ingestion loop, none of that file's records is in raw_records and none of
\* the names first met in that file is in seen_names.
C30_FailedFileLeavesNoTrace ==
    (prog = "etl" /\ pc = "ingest" /\ cur = "none" /\ failed) =>
        LET src == fi - 1
        IN  /\ \A i \in 1..Len(raw_records) : raw_records[i].src # src
            /\ \A e \in examined : e.src = src => e.name \notin seen_names

\* C29 as stated: once a run over a list has passed the transform loop, every
\* non-empty name carried by an element that transform_record converts is the
\* name of a record of the output, whichever occurrence of the name it is
C29_EveryTransformableNameInOutput ==
    (pc \in { "exit_no_records", "exit_no_transformed", "reconcile", "validate" } /\ ~failed)
        => \A i \in 1..Len(arg.items) :
              LET r == arg.items[i]
                  t == IF prog = "etl" THEN transform_record(r, i)
                       ELSE farmshops_transform_record(r)
              IN  (r.kind = "dict" /\ r.name.t = "str" /\ r.name.s # << >> /\ t.ok)
                     => \E j \in 1..Len(transformed_records) :
                           transformed_records[j].name.s = r.name.s

\* C29, amended: the names of the output are the names whose FIRST occurrence
\* in the list transform_record converts; a later occurrence of a name is
\* dropped as a duplicate before the transform loop and is never tried
C29_OutputNamesAreFirstOccurrencesThatTransform ==
    (pc \in { "exit_no_records", "exit_no_transformed", "reconcile", "validate" } /\ ~failed)
        => LET named(i) == arg.items[i].kind = "dict" /\ arg.items[i].name.t = "str"
                              /\ arg.items[i].name.s # << >>
               first(i) == named(i) /\ \A k \in 1..(i - 1) :
                              ~(named(k) /\ arg.items[k].name.s = arg.items[i].name.s)
               converts(i) == IF prog = "etl" THEN transform_record(arg.items[i], i).ok
                              ELSE farmshops_transform_record(arg.items[i]).ok
           IN  { transformed_records[j].name.s : j \in 1..Len(transformed_records) }
                  = { arg.items[i].name.s : i \in { k \in 1..Len(arg.items) : first(k) /\ converts(k) } }

\* C29: a run over a list whose first element fails to transform and whose
\* second element carries the same name and would transform; nothing is output
C29_Witness ==
    /\ pc = "exit_no_transformed" /\ ~failed
    /\ Len(arg.items) = 2
    /\ arg.items[1].name = arg.items[2].name /\ arg.items[1].name.t = "str"
    /\ ~(IF prog = "etl" THEN transform_record(arg.items[1], 1).ok
         ELSE farmshops_transform_record(arg.items[1]).ok)
    /\ (IF prog = "etl" THEN transform_record(arg.items[2], 2).ok
        ELSE farmshops_transform_record(arg.items[2]).ok)
    /\ transformed_records = << >>

====
